---- MODULE Spec2Model ----
(***************************************************************************)
(* Organizador de Rotina Inteligente: the storage layer (storage.js, kept  *)
(* in src/js/app.js lines 591-1139) over one localStorage key holding a    *)
(* JSON array of card records, as a state machine.                         *)
(*                                                                         *)
(* JavaScript values are encoded as follows.  A string-valued field is a   *)
(* TLA+ string; `undefined` (also: the key is absent, which is what        *)
(* JSON.stringify makes of it) is Undefined and `null` is Null.  A title   *)
(* is a tagged value whose characters are kept as a sequence, so that      *)
(* String.prototype.trim is computed.  Timestamps are positive integers    *)
(* and 0 stands for an absent timestamp (both are falsy).  `order` is an   *)
(* integer and NoOrder stands for an absent order.                         *)
(*                                                                         *)
(* The repository holds two state.js: the one of src/unnamed/part_000      *)
(* (lines 1-454, version 1) and the corrected one of src/js/navigation.js  *)
(* (from line 1840, version 2).  env.version says which one the page has   *)
(* loaded.  getState() returns { ...state }: a new object whose cards,      *)
(* modals and stats are the very objects the state refers to.              *)
(***************************************************************************)
EXTENDS Integers, Sequences, FiniteSets, TLC

VARIABLES store, clock, nextId, quota, last,
          env, state, listeners, dom, ui

\* The page: which state.js is loaded and the time zone (env), the state
\* object of state.js and its listeners, the document (dom) and the handler
\* that has just run (ui).
uiVars == <<env, state, listeners, dom, ui>>

vars == <<store, clock, nextId, quota, last, env, state, listeners, dom, ui>>

---------------------------------------------------------------------------
(* Bounds of the model.                                                    *)

MaxCards == 2
MaxTime == 2
MaxOrder == 3
MaxList == 3
MaxRaw == 3
MaxListeners == 2

---------------------------------------------------------------------------
(* JavaScript values.                                                      *)

Undefined == "<undefined>"
Null == "<null>"
NumberValue == "<number>"

NoOrder == -1

Falsy(v) == v \in {Undefined, Null, ""}

Str(cs) == [type |-> "string", chars |-> cs]
UndefinedTitle == [type |-> "undefined", chars |-> <<>>]
NumberTitle == [type |-> "number", chars |-> <<>>]

RECURSIVE TrimStart(_)
TrimStart(cs) == IF cs # <<>> /\ Head(cs) = " " THEN TrimStart(Tail(cs)) ELSE cs

RECURSIVE TrimEnd(_)
TrimEnd(cs) ==
    IF cs # <<>> /\ cs[Len(cs)] = " " THEN TrimEnd(SubSeq(cs, 1, Len(cs) - 1)) ELSE cs

Trim(cs) == TrimEnd(TrimStart(cs))

---------------------------------------------------------------------------
(* utils.js                                                                *)

getAvailableCategories == {"trabalho", "pessoal", "saude", "financeiro", "casa", "outro"}
getAvailableStatus == {"pendente", "concluido", "vencido"}
getAvailablePriorities == {"baixa", "media", "alta"}
validTabs == {"rotina", "economia", "lembretes", "links"}

\* generateId: a random UUID behind the prefix 'card-'; the n-th call returns
\* an identifier that no earlier call returned and no import file carries.
generateId(n) == CASE n = 1 -> "g1" [] n = 2 -> "g2" [] n = 3 -> "g3"
                   [] n = 4 -> "g4" [] n = 5 -> "g5" [] OTHER -> "g6"

---------------------------------------------------------------------------
(* The value under STORAGE_KEY and its records.                            *)

NoValue == [kind |-> "null", cards |-> <<>>]
Unparsable == [kind |-> "unparsable", cards |-> <<>>]
NotArray == [kind |-> "notarray", cards |-> <<>>]
Arr(cards) == [kind |-> "array", cards |-> cards]

Card(id, title, date, category, status, priority, link, tab, createdAt, updatedAt, order) ==
    [id |-> id, title |-> title, date |-> date, category |-> category,
     status |-> status, priority |-> priority, link |-> link, tab |-> tab,
     createdAt |-> createdAt, updatedAt |-> updatedAt, order |-> order]

\* An element of the stored array that is no object (null, a number).
NonObject == Card(Undefined, UndefinedTitle, Undefined, Undefined, Undefined,
                  Undefined, Undefined, Undefined, 0, 0, NoOrder)

\* The argument of saveCard and updateCard: a record of the form's seven
\* fields plus id and createdAt, a key the caller left out being Undefined
\* (UndefinedTitle, 0).
CardData(id, title, date, category, status, priority, link, tab, createdAt) ==
    [id |-> id, title |-> title, date |-> date, category |-> category,
     status |-> status, priority |-> priority, link |-> link, tab |-> tab,
     createdAt |-> createdAt]

NoData == CardData(Undefined, UndefinedTitle, Undefined, Undefined, Undefined,
                   Undefined, Undefined, Undefined, 0)

Ids(cards) == [i \in 1..Len(cards) |-> cards[i].id]

---------------------------------------------------------------------------
(* getAllCards                                                             *)

\* The filter callback of getAllCards.
isValidCard(card) ==
    /\ card # NonObject
    /\ ~Falsy(card.id)
    /\ card.id # NumberValue
    /\ card.title.type = "string"
    /\ card.title.chars # <<>>

\* The callback with the two orders the wrong way round.
compareCardsDescending(a, b) ==
    IF a.order # NoOrder /\ b.order # NoOrder
    THEN b.order - a.order
    ELSE b.createdAt - a.createdAt

\* The sort callback of getAllCards.
compareCards(a, b) ==
    IF a.order # NoOrder /\ b.order # NoOrder
    THEN a.order - b.order
    ELSE b.createdAt - a.createdAt

\* The sort callback of reorderCards.
compareOrder(a, b) == a.order - b.order

Compare(mode, a, b) == IF mode = "getAll" THEN compareCards(a, b) ELSE compareOrder(a, b)

\* Array.prototype.sort is stable: an element goes behind every element that
\* does not compare greater than it.
RECURSIVE InsertSorted(_, _, _)
InsertSorted(mode, sorted, x) ==
    IF sorted # <<>> /\ Compare(mode, sorted[Len(sorted)], x) > 0
    THEN Append(InsertSorted(mode, SubSeq(sorted, 1, Len(sorted) - 1), x),
                sorted[Len(sorted)])
    ELSE Append(sorted, x)

RECURSIVE SortCards(_, _)
SortCards(mode, s) ==
    IF s = <<>> THEN <<>>
    ELSE InsertSorted(mode, SortCards(mode, SubSeq(s, 1, Len(s) - 1)), s[Len(s)])

\* JSON.parse of the stored text: throws on text that is no JSON.
parseThrows(value) == value.kind = "unparsable"

\* The try block of getAllCards: [threw, cards].
getAllCardsTry(value) ==
    IF value.kind = "null" THEN [threw |-> FALSE, cards |-> <<>>]
    ELSE IF parseThrows(value) THEN [threw |-> TRUE, cards |-> <<>>]
    ELSE IF value.kind # "array" THEN [threw |-> FALSE, cards |-> <<>>]
    ELSE [threw |-> FALSE,
          cards |-> SortCards("getAll", SelectSeq(value.cards, isValidCard))]

\* getAllCards with its catch clause: what the caller sees.
getAllCardsResult(value) ==
    LET r == getAllCardsTry(value)
    IN  IF r.threw THEN [threw |-> FALSE, cards |-> <<>>] ELSE r

getAllCards(value) == getAllCardsResult(value).cards

\* Array.prototype.sort leaves the sequence to the engine when the callback
\* is no consistent comparator, which compareCards is not once some records
\* carry an order and others do not.  Two sorts engines run on short arrays:
\* the insertion from the right of SortCards, and V8's, which takes the
\* longest leading run (reversed when strictly descending) and places every
\* later element by binary search.
RECURSIVE binarySearch(_, _, _, _)
binarySearch(sorted, pivot, left, right) ==
    IF left >= right THEN left
    ELSE LET mid == left + ((right - left) \div 2)
         IN  IF compareCards(pivot, sorted[mid + 1]) < 0
             THEN binarySearch(sorted, pivot, left, mid)
             ELSE binarySearch(sorted, pivot, mid + 1, right)

binaryInsert(sorted, pivot) ==
    LET at == binarySearch(sorted, pivot, 0, Len(sorted))
    IN  SubSeq(sorted, 1, at) \o <<pivot>> \o SubSeq(sorted, at + 1, Len(sorted))

Reverse(s) == [i \in 1..Len(s) |-> s[Len(s) + 1 - i]]

runLength(s) ==
    LET descending == compareCards(s[2], s[1]) < 0
        extends(i) == IF descending THEN compareCards(s[i], s[i - 1]) < 0
                      ELSE compareCards(s[i], s[i - 1]) >= 0
    IN  CHOOSE r \in 2..Len(s) :
            /\ \A i \in 3..r : extends(i)
            /\ r < Len(s) => ~extends(r + 1)

RECURSIVE insertFrom(_, _, _)
insertFrom(sorted, s, k) ==
    IF k > Len(s) THEN sorted ELSE insertFrom(binaryInsert(sorted, s[k]), s, k + 1)

runSort(s) ==
    IF Len(s) < 2 THEN s
    ELSE LET r == runLength(s)
             run == IF compareCards(s[2], s[1]) < 0 THEN Reverse(SubSeq(s, 1, r))
                    ELSE SubSeq(s, 1, r)
         IN  insertFrom(run, s, r + 1)

\* Every list getAllCards may return for a stored value.
getAllOutcomes(value) ==
    IF value.kind # "array" THEN {<<>>}
    ELSE {SortCards("getAll", SelectSeq(value.cards, isValidCard)),
          runSort(SelectSeq(value.cards, isValidCard))}

---------------------------------------------------------------------------
(* localStorage.setItem(STORAGE_KEY, JSON.stringify(cards)): one call that *)
(* either replaces the whole value or throws (quota exceeded) and leaves   *)
(* it.                                                                     *)

setItem(old, cards, throws) == IF throws THEN old ELSE Arr(cards)

Ret(ok, cards, imported, skipped, total) ==
    [ok |-> ok, cards |-> cards, imported |-> imported, skipped |-> skipped,
     total |-> total]

\* null, false and { success: false, imported: 0, skipped: 0, total: 0 }.
Failed == Ret(FALSE, <<>>, 0, 0, 0)

\* How a try block ends: the stored value, the value returned, the number of
\* setItem calls made, and whether an exception left the block.
Return(value, ret, writes) ==
    [store |-> value, ret |-> ret, writes |-> writes, threw |-> FALSE]

Throw(value, writes) ==
    [store |-> value, ret |-> Failed, writes |-> writes, threw |-> TRUE]

\* A write and the return behind it.
Write(value, cards, ret, throws) ==
    IF throws THEN Throw(setItem(value, cards, TRUE), 1)
    ELSE Return(setItem(value, cards, FALSE), ret, 1)

\* A catch clause that throws the error on.
catchRethrows(r) == r

\* catch (error) { console.error(...); return null; }
catchError(r) == IF r.threw THEN Return(r.store, Failed, r.writes) ELSE r

---------------------------------------------------------------------------
(* saveCard                                                                *)

\* Lines 720-722; a title that is no string has no trim method, and the
\* TypeError ends in the same catch clause.
titleMissing(title) ==
    \/ title.type # "string"
    \/ title.chars = <<>>
    \/ Trim(title.chars) = <<>>

saveCategory(v) ==
    IF ~Falsy(v) /\ v \notin getAvailableCategories THEN "outro" ELSE v

saveStatus(v) ==
    IF Falsy(v) \/ v \notin getAvailableStatus THEN "pendente" ELSE v

savePriority(v) ==
    IF Falsy(v) \/ v \notin getAvailablePriorities THEN "media" ELSE v

saveTab(v) ==
    IF Falsy(v) \/ v \notin validTabs THEN "rotina" ELSE v

\* cardData.date || '' and cardData.link || ''
orEmpty(v) == IF Falsy(v) THEN "" ELSE v

newCardOrder(cards) == Len(cards)

newCard(cardData, cards, id, now) ==
    Card(id, Str(Trim(cardData.title.chars)), orEmpty(cardData.date),
         saveCategory(cardData.category), saveStatus(cardData.status),
         savePriority(cardData.priority), orEmpty(cardData.link),
         saveTab(cardData.tab), now, now, newCardOrder(cards))

saveCardTry(value, cardData, id, now, throws) ==
    IF titleMissing(cardData.title) THEN Throw(value, 0)
    ELSE LET cards == getAllCards(value)
             card == newCard(cardData, cards, id, now)
         IN  Write(value, Append(cards, card), Ret(TRUE, <<card>>, 0, 0, 0), throws)

saveCard(value, cardData, id, now, throws) ==
    catchError(saveCardTry(value, cardData, id, now, throws))

---------------------------------------------------------------------------
(* updateCard                                                              *)

\* findIndex: the first position holding the id, 0 when there is none.
findIndex(cards, cardId) ==
    IF \E i \in 1..Len(cards) : cards[i].id = cardId
    THEN CHOOSE i \in 1..Len(cards) :
            /\ cards[i].id = cardId
            /\ \A j \in 1..(i - 1) : cards[j].id # cardId
    ELSE 0

\* The spread without the destructuring in front of it.
safeUpdatesKeepsAll(updates) == updates

\* const { id, createdAt, ...safeUpdates } = updates
safeUpdates(updates) == [updates EXCEPT !.id = Undefined, !.createdAt = 0]

updateCategory(v) ==
    IF ~Falsy(v) /\ v \notin getAvailableCategories THEN "outro" ELSE v

updateStatus(v) ==
    IF ~Falsy(v) /\ v \notin getAvailableStatus THEN "pendente" ELSE v

updatePriority(v) ==
    IF ~Falsy(v) /\ v \notin getAvailablePriorities THEN "media" ELSE v

updateTab(v) ==
    IF ~Falsy(v) /\ v \notin validTabs THEN "rotina" ELSE v

\* One key of { ...cards[cardIndex], ...safeUpdates }.
spread(old, new) == IF new = Undefined THEN old ELSE new

\* The title after the spread and lines 840-843.
mergedTitle(old, new) ==
    LET t == IF new.type = "undefined" THEN old ELSE new
    IN  IF t.type = "string" /\ t.chars # <<>> /\ Trim(t.chars) # <<>>
        THEN Str(Trim(t.chars))
        ELSE t

updatedCard(old, updates, now) ==
    LET safe == safeUpdates(updates)
    IN  Card(spread(old.id, safe.id),
             mergedTitle(old.title, safe.title),
             spread(old.date, safe.date),
             spread(old.category, updateCategory(safe.category)),
             spread(old.status, updateStatus(safe.status)),
             spread(old.priority, updatePriority(safe.priority)),
             spread(old.link, safe.link),
             spread(old.tab, updateTab(safe.tab)),
             IF safe.createdAt = 0 THEN old.createdAt ELSE safe.createdAt,
             now,
             old.order)

updateCardTry(value, cardId, updates, now, throws) ==
    IF Falsy(cardId) \/ cardId = NumberValue THEN Throw(value, 0)
    ELSE LET cards == getAllCards(value)
             cardIndex == findIndex(cards, cardId)
         IN  IF cardIndex = 0 THEN Throw(value, 0)
             ELSE LET card == updatedCard(cards[cardIndex], updates, now)
                  IN  Write(value, [cards EXCEPT ![cardIndex] = card],
                            Ret(TRUE, <<card>>, 0, 0, 0), throws)

updateCard(value, cardId, updates, now, throws) ==
    catchError(updateCardTry(value, cardId, updates, now, throws))

---------------------------------------------------------------------------
(* deleteCard                                                              *)

keepOthers(cards, cardId) == SelectSeq(cards, LAMBDA c : c.id # cardId)

\* filteredCards.forEach((card, index) => { card.order = index; })
compactOrder(cards) == [i \in 1..Len(cards) |-> [cards[i] EXCEPT !.order = i - 1]]

deleteCardTry(value, cardId, throws) ==
    IF Falsy(cardId) \/ cardId = NumberValue THEN Throw(value, 0)
    ELSE LET cards == getAllCards(value)
             filteredCards == keepOthers(cards, cardId)
         IN  IF Len(filteredCards) = Len(cards) THEN Return(value, Failed, 0)
             ELSE Write(value, compactOrder(filteredCards),
                        Ret(TRUE, <<>>, 0, 0, 0), throws)

deleteCard(value, cardId, throws) == catchError(deleteCardTry(value, cardId, throws))

---------------------------------------------------------------------------
(* reorderCards                                                            *)

includes(cardIds, id) == \E k \in 1..Len(cardIds) : cardIds[k] = id

\* new Map(cards.map(card => [card.id, card])): a later record of the same id
\* replaces the earlier one, so the map holds the last position of each id.
cardMapHolds(cards, i) == \A j \in (i + 1)..Len(cards) : cards[j].id # cards[i].id

\* The index the forEach over cardIds writes last for this id.
lastIndexOf(cardIds, id) ==
    (CHOOSE k \in 1..Len(cardIds) :
        /\ cardIds[k] = id
        /\ \A m \in (k + 1)..Len(cardIds) : cardIds[m] # id) - 1

\* The order given to a record the list leaves out.
omittedOrder(cards, card) == Len(cards) + card.order

\* Date.now() is read once per listed card; the model gives the calls of one
\* reorderCards the same millisecond.
reorderedCard(cards, i, cardIds, now) ==
    IF ~includes(cardIds, cards[i].id)
    THEN [cards[i] EXCEPT !.order = omittedOrder(cards, cards[i])]
    ELSE IF cardMapHolds(cards, i)
         THEN [cards[i] EXCEPT !.order = lastIndexOf(cardIds, cards[i].id),
                               !.updatedAt = now]
         ELSE cards[i]

reorderCardsTry(value, cardIds, now, throws) ==
    LET cards == getAllCards(value)
        rewritten == [i \in 1..Len(cards) |-> reorderedCard(cards, i, cardIds, now)]
    IN  Write(value, SortCards("order", rewritten), Ret(TRUE, <<>>, 0, 0, 0), throws)

reorderCards(value, cardIds, now, throws) ==
    catchError(reorderCardsTry(value, cardIds, now, throws))

---------------------------------------------------------------------------
(* exportCards and importCards                                             *)

\* JSON.stringify writes a key whose value is undefined not at all and
\* JSON.parse reads a key that is not there as undefined, so a record comes
\* back from the text with the fields it went in with.
\* The text handed to importCards: no JSON at all, JSON without a cards
\* array, or JSON whose cards member is an array.
InvalidJson == [kind |-> "invalid", cards |-> <<>>]
NoCardsArray == [kind |-> "nocards", cards |-> <<>>]
CardsJson(cards) == [kind |-> "cards", cards |-> cards]

exportCards(value) == CardsJson(getAllCards(value))

\* !card.id || !card.title
importRejects(card) ==
    \/ Falsy(card.id)
    \/ card.title.type = "undefined"
    \/ (card.title.type = "string" /\ card.title.chars = <<>>)

\* An import that never looks at the records already stored.
importExistsNever(existingCards, card) == FALSE

\* existingCards.some(existing => existing.id === card.id)
importExists(existingCards, card) ==
    \E i \in 1..Len(existingCards) : existingCards[i].id = card.id

importedCard(card, existingCards, importedCards, now) ==
    [card EXCEPT !.createdAt = IF card.createdAt = 0 THEN now ELSE card.createdAt,
                 !.updatedAt = IF card.updatedAt = 0 THEN now ELSE card.updatedAt,
                 !.order = Len(existingCards) + Len(importedCards)]

\* The forEach over importData.cards: [imported, skipped].
RECURSIVE importLoop(_, _, _)
importLoop(cards, existingCards, now) ==
    IF cards = <<>> THEN [imported |-> <<>>, skipped |-> 0]
    ELSE LET before == importLoop(SubSeq(cards, 1, Len(cards) - 1), existingCards, now)
             card == cards[Len(cards)]
         IN  IF importRejects(card) \/ importExists(existingCards, card)
             THEN [before EXCEPT !.skipped = @ + 1]
             ELSE [before EXCEPT !.imported =
                      Append(@, importedCard(card, existingCards, @, now))]

importCardsTry(value, json, now, throws) ==
    IF json.kind # "cards" THEN Throw(value, 0)
    ELSE LET existingCards == getAllCards(value)
             done == importLoop(json.cards, existingCards, now)
             allCards == existingCards \o done.imported
         IN  Write(value, allCards,
                   Ret(TRUE, <<>>, Len(done.imported), done.skipped, Len(allCards)),
                   throws)

importCards(value, json, now, throws) ==
    catchError(importCardsTry(value, json, now, throws))

---------------------------------------------------------------------------
(* clearAllCards                                                           *)

clearAllCards(value) == NoValue

---------------------------------------------------------------------------
(* getStats                                                                *)

\* The calendar day of every Date.now() of the model.
Today == "2024-01-05"

PreviousDay(day) ==
    CASE day = "2024-01-06" -> "2024-01-05"
      [] day = "2024-01-05" -> "2024-01-04"
      [] OTHER -> "2024-01-03"

\* new Date('YYYY-MM-DD') is midnight UTC; getFullYear, getMonth and getDate
\* read it in local time, which west of Greenwich is still the day before.
localDay(date, zone) == IF zone = "west" THEN PreviousDay(date) ELSE date

\* cards.filter(test).length
getStats(value, zone) ==
    LET cards == getAllCards(value)
        count(test(_)) == Len(SelectSeq(cards, test))
    IN  [total |-> Len(cards),
         today |-> count(LAMBDA c : ~Falsy(c.date) /\ localDay(c.date, zone) = Today),
         pending |-> count(LAMBDA c : c.status = "pendente"),
         completed |-> count(LAMBDA c : c.status = "concluido"),
         overdue |-> count(LAMBDA c : c.status = "vencido"),
         byTab |-> [t \in validTabs |-> count(LAMBDA c : c.tab = t)]]

getCardsByTab(value, tabName) ==
    IF tabName \notin validTabs THEN <<>>
    ELSE SelectSeq(getAllCards(value), LAMBDA c : c.tab = tabName)

---------------------------------------------------------------------------
(* state.js                                                                *)

\* An argument of a setter: a boolean, a string, null or a number.
Bool(b) == [type |-> "boolean", b |-> b, s |-> ""]
Text(t) == [type |-> "string", b |-> FALSE, s |-> t]
NullArg == [type |-> "null", b |-> FALSE, s |-> ""]
NumberArg == [type |-> "number", b |-> FALSE, s |-> ""]

validModals(version) ==
    IF version = 1 THEN {"cardModal", "linkModal", "deleteModal", "searchModal"}
    ELSE {"cardModal", "linkModal", "deleteModal"}

ZeroStats ==
    [total |-> 0, today |-> 0, pending |-> 0, completed |-> 0, overdue |-> 0,
     byTab |-> [t \in validTabs |-> 0]]

initialState(version) ==
    [cards |-> <<>>, activeTab |-> "rotina", selectedCardId |-> Null,
     modals |-> [n \in validModals(version) |-> FALSE],
     isSearchVisible |-> FALSE, searchQuery |-> "", stats |-> ZeroStats,
     isLoading |-> (version = 1)]

\* { ...state, ...updates }
merge(st, updates) ==
    [k \in DOMAIN st |-> IF k \in DOMAIN updates THEN updates[k] ELSE st[k]]

\* Version 2; cardsReplaced says that state.cards is another array object
\* than before.
hasStateChanged(newState, oldState, cardsReplaced) ==
    \/ newState.activeTab # oldState.activeTab
    \/ newState.selectedCardId # oldState.selectedCardId
    \/ newState.isSearchVisible # oldState.isSearchVisible
    \/ newState.searchQuery # oldState.searchQuery
    \/ newState.isLoading # oldState.isLoading
    \/ Len(newState.cards) # Len(oldState.cards)
    \/ cardsReplaced
    \/ \E key \in DOMAIN newState.modals : newState.modals[key] # oldState.modals[key]
    \/ \E key \in {"total", "today", "pending", "completed", "overdue"} :
          newState.stats[key] # oldState.stats[key]

\* Version 1: JSON.stringify(oldState) !== JSON.stringify(state).
stringifyDiffers(newState, oldState) == newState # oldState

getSelectedCard(st) ==
    IF Falsy(st.selectedCardId) THEN 0 ELSE findIndex(st.cards, st.selectedCardId)

---------------------------------------------------------------------------
(* modals.js: the form and what the listener of app.js does with it        *)

BlankForm(tab) ==
    [cardId |-> "", title |-> Str(<<>>), date |-> "", category |-> "",
     status |-> "pendente", priority |-> "media", link |-> "", tab |-> tab]

\* new URL(url) succeeds and the protocol is one of the accepted ones.
isValidUrl(url) == url \in {"https://a.io", "app://x"}

\* new Date(value) of the date field is a date.
isValidDate(value) == value \in {"2024-01-04", "2024-01-05", "2024-01-06"}

validateForm(form) ==
    /\ Trim(form.title.chars) # <<>>
    /\ Len(Trim(form.title.chars)) <= 100
    /\ form.link = "" \/ isValidUrl(form.link)
    /\ form.date = "" \/ isValidDate(form.date)

\* Assigning to the value of a select: a value that is no option selects
\* nothing.
selectValue(v, options) == IF v \in options THEN v ELSE ""

formatDateForInput(date, zone) ==
    IF ~isValidDate(date) THEN "" ELSE localDay(date, zone)

\* A reset that leaves every field as it is.
resetFormKeepsFields(m) == m

resetForm(m) ==
    [m EXCEPT !.dom.form = BlankForm(m.state.activeTab), !.dom.saveDisabled = FALSE]

fillEditForm(m, card) ==
    LET form == [cardId |-> card.id,
                 title |-> IF card.title.type = "string" THEN card.title ELSE Str(<<>>),
                 date |-> IF Falsy(card.date) THEN ""
                          ELSE formatDateForInput(card.date, m.env.zone),
                 category |-> selectValue(orEmpty(card.category),
                                          getAvailableCategories \cup {""}),
                 status |-> selectValue(IF Falsy(card.status) THEN "pendente"
                                        ELSE card.status, getAvailableStatus),
                 priority |-> selectValue(IF Falsy(card.priority) THEN "media"
                                          ELSE card.priority, getAvailablePriorities),
                 link |-> orEmpty(card.link),
                 tab |-> selectValue(IF Falsy(card.tab) THEN "rotina" ELSE card.tab,
                                     validTabs)]
    IN  [m EXCEPT !.dom.form = form, !.dom.saveDisabled = ~validateForm(form)]

\* The modals that have an element in the document.
modalElements == {"cardModal", "linkModal", "deleteModal"}

updateModalsFromState(m) ==
    LET st == m.state
        shown == {n \in DOMAIN st.modals : st.modals[n]}
        active == IF shown \cap modalElements # {}
                  THEN (m.dom.active \ modalElements) \cup (shown \cap modalElements)
                       \cup {"overlay"}
                  ELSE IF shown # {} THEN m.dom.active \ modalElements
                  ELSE {}
        m1 == [m EXCEPT !.dom.active = active]
        selected == getSelectedCard(st)
    IN  IF ~st.modals.cardModal THEN m1
        ELSE IF selected # 0 /\ m.dom.form.cardId = ""
             THEN fillEditForm(m1, st.cards[selected])
        ELSE IF selected = 0 /\ m.dom.form.cardId # "" THEN resetForm(m1)
        ELSE m1

---------------------------------------------------------------------------
(* state.js: listeners and setters                                         *)

\* One listener is called with the state; "app" is the listener app.js
\* subscribes, any other name a listener that only takes note.
invoke(m, listener) ==
    LET noted == [m EXCEPT !.log = Append(@, [listener |-> listener, seen |-> m.state])]
    IN  IF listener = "app" THEN updateModalsFromState(noted) ELSE noted

RECURSIVE notifyFrom(_, _)
notifyFrom(m, i) ==
    IF i > Len(m.listeners) THEN m
    ELSE notifyFrom(invoke(m, m.listeners[i]), i + 1)

notifyListeners(m) == notifyFrom(m, 1)

subscribe(m, callback) ==
    IF m.env.version = 2 /\ \E i \in 1..Len(m.listeners) : m.listeners[i] = callback
    THEN m
    ELSE [m EXCEPT !.listeners = Append(@, callback)]

\* The function subscribe returned: version 1 splices the first occurrence
\* out of the array, version 2 deletes the callback from the Set.
unsubscribe(m, callback) ==
    LET at == IF \E i \in 1..Len(m.listeners) : m.listeners[i] = callback
              THEN CHOOSE i \in 1..Len(m.listeners) :
                      /\ m.listeners[i] = callback
                      /\ \A j \in 1..(i - 1) : m.listeners[j] # callback
              ELSE 0
    IN  IF at = 0 THEN m
        ELSE [m EXCEPT !.listeners = SubSeq(@, 1, at - 1) \o SubSeq(@, at + 1, Len(@))]

\* cardsReplaced: updates.cards is another array object than state.cards.
updateState(m, updates, cardsReplaced) ==
    LET newState == merge(m.state, updates)
        changed == IF m.env.version = 1 THEN stringifyDiffers(newState, m.state)
                   ELSE hasStateChanged(newState, m.state, cardsReplaced)
        m1 == [m EXCEPT !.state = newState]
    IN  IF changed THEN notifyListeners(m1) ELSE m1

setActiveTab(m, tabName) ==
    IF tabName \notin validTabs THEN m
    ELSE IF m.state.activeTab = tabName THEN m
    ELSE IF m.env.version = 1
         THEN updateState(m, [activeTab |-> tabName, selectedCardId |-> Null], FALSE)
         ELSE updateState(m, [activeTab |-> tabName, selectedCardId |-> Null,
                              isSearchVisible |-> FALSE, searchQuery |-> ""], FALSE)

\* cardId: an argument of any type.
setSelectedCard(m, cardId) ==
    IF cardId.type \notin {"null", "string"} THEN m
    ELSE updateState(m, [selectedCardId |-> IF cardId.type = "null" THEN Null
                                            ELSE cardId.s], FALSE)

\* cards: an argument that is an array (kind "array") or is none; replaced
\* says whether the array is another object than state.cards.
updateCards(m, cards, replaced) ==
    IF cards.kind # "array" THEN m
    ELSE updateState(m, [cards |-> cards.cards,
                         stats |-> getStats(m.store, m.env.zone),
                         selectedCardId |-> Null], replaced)

setModalVisibility(m, modalName, isVisible) ==
    IF modalName \notin validModals(m.env.version) THEN m
    ELSE IF isVisible.type # "boolean" THEN m
    ELSE LET modals == [m.state.modals EXCEPT ![modalName] = isVisible.b]
             closesCard == modalName = "cardModal" /\ ~isVisible.b
         IN  IF m.env.version = 1 /\ ~closesCard
             THEN updateState(m, [modals |-> modals], FALSE)
             ELSE updateState(m, [modals |-> modals,
                                  selectedCardId |-> IF closesCard THEN Null
                                                     ELSE m.state.selectedCardId],
                              FALSE)

setSearchVisibility(m, isVisible) ==
    IF isVisible.type # "boolean" THEN m
    ELSE updateState(m, [isSearchVisible |-> isVisible.b,
                         searchQuery |-> IF isVisible.b THEN m.state.searchQuery
                                         ELSE ""], FALSE)

setSearchQuery(m, query) ==
    IF query.type # "string" THEN m
    ELSE updateState(m, [searchQuery |-> query.s], FALSE)

refreshStats(m) == updateState(m, [stats |-> getStats(m.store, m.env.zone)], FALSE)

\* loadInitialState: version 1 goes through setLoading(true), version 2
\* always notifies.
loadInitialState(m) ==
    LET loading == IF m.env.version = 1 THEN updateState(m, [isLoading |-> TRUE], FALSE)
                   ELSE m
        loaded == [loading EXCEPT
                      !.state = merge(@, [cards |-> getAllCards(m.store),
                                          stats |-> getStats(m.store, m.env.zone),
                                          isLoading |-> FALSE])]
    IN  notifyListeners(loaded)

\* The reorderCards of state.js: the cards named by cardIds in that
\* sequence, then the others.
RECURSIVE orderedCards(_, _)
orderedCards(cards, cardIds) ==
    IF cardIds = <<>> THEN <<>>
    ELSE LET before == orderedCards(cards, SubSeq(cardIds, 1, Len(cardIds) - 1))
             cardId == cardIds[Len(cardIds)]
             holds == {i \in 1..Len(cards) : cards[i].id = cardId /\ cardMapHolds(cards, i)}
         IN  IF holds = {} THEN before
             ELSE Append(before, cards[CHOOSE i \in holds : TRUE])

reorderCardsOfState(m, cardIds) ==
    IF cardIds.kind # "array" THEN m
    ELSE updateCards(m, Arr(orderedCards(m.state.cards, cardIds.cards)
                            \o SelectSeq(m.state.cards,
                                         LAMBDA c : ~includes(cardIds.cards, c.id))),
                     TRUE)

---------------------------------------------------------------------------
(* state.js: the search                                                    *)

\* A character is a one-letter string; "a'" and "A'" stand for the letter a
\* with an acute accent in lower and in upper case.
toLowerCase(c) ==
    CASE c = "A" -> "a"
      [] c = "B" -> "b"
      [] c = "C" -> "c"
      [] c = "A'" -> "a'"
      [] OTHER -> c

lowered(cs) == [i \in 1..Len(cs) |-> toLowerCase(cs[i])]

\* The characters of a category.
categoryChars(category) ==
    CASE category = "trabalho" -> <<"t", "r", "a", "b", "a", "l", "h", "o">>
      [] category = "pessoal" -> <<"p", "e", "s", "s", "o", "a", "l">>
      [] category = "saude" -> <<"s", "a", "u", "d", "e">>
      [] category = "financeiro" -> <<"f", "i", "n", "a", "n", "c", "e", "i", "r", "o">>
      [] category = "casa" -> <<"c", "a", "s", "a">>
      [] category = "outro" -> <<"o", "u", "t", "r", "o">>
      [] OTHER -> <<>>

\* String.prototype.includes
contains(cs, part) ==
    \E i \in 1..(Len(cs) - Len(part) + 1) : SubSeq(cs, i, i + Len(part) - 1) = part

getCardsForActiveTab(m) ==
    IF m.env.version = 1 THEN getCardsByTab(m.store, m.state.activeTab)
    ELSE SelectSeq(m.state.cards, LAMBDA card : card.tab = m.state.activeTab)

\* query: a string (Str) or a value of another type.
filterCardsBySearch(m, query) ==
    LET normalizedQuery == Trim(lowered(query.chars))
        matches(card) ==
            /\ card.tab = m.state.activeTab
            /\ \/ contains(lowered(card.title.chars), normalizedQuery)
               \/ /\ ~Falsy(card.category)
                  /\ contains(lowered(categoryChars(card.category)), normalizedQuery)
    IN  IF query.type # "string"
        THEN IF m.env.version = 1 THEN <<>> ELSE getCardsForActiveTab(m)
        ELSE IF normalizedQuery = <<>> THEN getCardsForActiveTab(m)
        ELSE SelectSeq(m.state.cards, matches)

---------------------------------------------------------------------------
(* navigation.js: the tabs, the mobile menu and the search bar             *)

openMobileMenu(m) == [m EXCEPT !.dom.menuOpen = TRUE]

closeMobileMenu(m) == [m EXCEPT !.dom.menuOpen = FALSE]

toggleMobileMenu(m) ==
    IF m.dom.menuOpen THEN closeMobileMenu(m) ELSE openMobileMenu(m)

openSearch(m) == [m EXCEPT !.dom.searchOpen = TRUE]

closeSearch(m) == [m EXCEPT !.dom.searchOpen = FALSE]

toggleSearch(m) == IF m.dom.searchOpen THEN closeSearch(m) ELSE openSearch(m)

\* updateNavigationVisual, updateTabContent and renderCards draw what the
\* state holds and change nothing of it.
switchTab(m, tabName) == closeSearch(closeMobileMenu(setActiveTab(m, tabName)))

\* Ctrl+F and Escape of app.js.
toggleSearchShortcut(m) == setSearchVisibility(m, Bool(~m.state.isSearchVisible))

---------------------------------------------------------------------------
(* cards.js: what a click on a card does                                   *)

showLinkModal(m, card) ==
    setModalVisibility(setSelectedCard(m, Text(card.id)), "linkModal", Bool(TRUE))

showDeleteModal(m, card) ==
    setModalVisibility(setSelectedCard(m, Text(card.id)), "deleteModal", Bool(TRUE))

openEditCardModal(m, card) ==
    setModalVisibility(setSelectedCard(m, Text(card.id)), "cardModal", Bool(TRUE))

createNewCard(m) ==
    setModalVisibility(setSelectedCard(m, NullArg), "cardModal", Bool(TRUE))

\* The click listener of a card element.
cardClick(m, card) ==
    LET selected == setSelectedCard(m, Text(card.id))
    IN  IF ~Falsy(card.link) THEN showLinkModal(selected, card)
        ELSE openEditCardModal(selected, card)

\* The page after the call and the value the call returns.
updateExistingCard(m, cardId, cardData, now, throws) ==
    LET out == updateCard(m.store, cardId, cardData, now, throws)
        written == [m EXCEPT !.store = out.store]
        cards == m.state.cards
        updatedCards == [i \in 1..Len(cards) |->
                            IF cards[i].id = cardId THEN out.ret.cards[1] ELSE cards[i]]
    IN  IF out.ret.ok
        THEN [page |-> updateCards(written, Arr(updatedCards), TRUE), result |-> TRUE]
        ELSE [page |-> written, result |-> FALSE]

---------------------------------------------------------------------------
(* modals.js: closing the modals and submitting the form                   *)

showToast(m, type) == [m EXCEPT !.toasts = Append(@, type)]

\* Object.keys(state.modals)
modalNames(version) ==
    IF version = 1 THEN <<"cardModal", "linkModal", "deleteModal", "searchModal">>
    ELSE <<"cardModal", "linkModal", "deleteModal">>

RECURSIVE hideFrom(_, _, _)
hideFrom(m, names, i) ==
    IF i > Len(names) THEN m
    ELSE hideFrom(setModalVisibility(m, names[i], Bool(FALSE)), names, i + 1)

closeAllModals(m) ==
    LET hidden == hideFrom(m, modalNames(m.env.version), 1)
        cleared == [hidden EXCEPT !.dom.active = {}]
        unselected == setSelectedCard(resetForm(cleared), NullArg)
    IN  [unselected EXCEPT !.dom.linkToOpen = ""]

\* The input listeners of the title and of the link: the field takes the
\* text and validateForm runs.
inputField(m, field, text) ==
    LET form == [m.dom.form EXCEPT ![field] = text]
    IN  [m EXCEPT !.dom.form = form, !.dom.saveDisabled = ~validateForm(form)]

\* The cardData handleFormSubmit reads off the form.
formCardData(form) ==
    CardData(Undefined, Str(Trim(form.title.chars)),
             IF form.date = "" THEN Null ELSE form.date,
             form.category, form.status, form.priority,
             IF form.link = "" THEN Null ELSE form.link, form.tab, 0)

handleFormSubmit(m, id, now, throws) ==
    LET form == m.dom.form
        isValid == validateForm(form)
        checked == [m EXCEPT !.dom.saveDisabled = ~isValid]
        cardData == formCardData(form)
        edited == updateExistingCard(checked, form.cardId, cardData, now, throws)
        out == saveCard(checked.store, cardData, id, now, throws)
        saved == [checked EXCEPT !.store = out.store]
        created == showToast(updateCards(saved,
                                         Arr(Append(saved.state.cards, out.ret.cards[1])),
                                         TRUE),
                             "success")
    IN  IF ~isValid THEN showToast(checked, "error")
        ELSE IF form.cardId # ""
             THEN IF edited.result
                  THEN closeAllModals(showToast(edited.page, "success"))
                  ELSE edited.page
        ELSE IF out.ret.ok THEN closeAllModals(created)
        ELSE closeAllModals(saved)

\* removeCard of cards.js: the page after the call and the value returned.
removeCard(m, cardId, throws) ==
    LET out == deleteCard(m.store, cardId, throws)
        written == [m EXCEPT !.store = out.store]
        updatedCards == SelectSeq(m.state.cards, LAMBDA card : card.id # cardId)
    IN  IF out.ret.ok
        THEN [page |-> updateCards(written, Arr(updatedCards), TRUE), result |-> TRUE]
        ELSE [page |-> written, result |-> FALSE]

confirmDelete(m, throws) ==
    LET cardId == m.state.selectedCardId
        removed == removeCard(m, cardId, throws)
    IN  IF Falsy(cardId) THEN closeAllModals(m)
        ELSE closeAllModals(showToast(removed.page,
                                      IF removed.result THEN "success" ELSE "error"))

\* openLinkModal of modals.js; new URL(url).hostname throws for no link of
\* the model.
openLinkModal(m, card) ==
    IF Falsy(card.link) THEN m
    ELSE LET closed == closeAllModals(m)
             noted == [closed EXCEPT !.dom.linkToOpen = card.link]
             shown == setModalVisibility(noted, "linkModal", Bool(TRUE))
         IN  [shown EXCEPT !.dom.active = @ \cup {"linkModal", "overlay"}]

\* window.location.href = currentLinkToOpen, and closeAllModals when the
\* timer of 100 ms fires.
confirmLinkOpen(m) ==
    IF m.dom.linkToOpen = "" THEN closeAllModals(m)
    ELSE closeAllModals([m EXCEPT !.dom.location = m.dom.linkToOpen])

\* openCardModal(cardData, defaultTab) of modals.js; cards holds cardData,
\* or nothing for null, and defaultTab is "" for null.
openCardModal(m, cards, defaultTab) ==
    LET closed == closeAllModals(m)
        blank == resetForm(closed)
        filled == IF cards # <<>> THEN fillEditForm(closed, cards[1])
                  ELSE [blank EXCEPT
                           !.dom.form.tab = IF defaultTab = "" THEN blank.state.activeTab
                                            ELSE defaultTab,
                           !.dom.form.date = Today,
                           !.dom.form.status = "pendente",
                           !.dom.form.priority = "media",
                           !.dom.form.category = ""]
        shown == setModalVisibility(filled, "cardModal", Bool(TRUE))
    IN  [shown EXCEPT !.dom.active = @ \cup {"cardModal", "overlay"}]

\* The click listener of the create buttons of navigation.js.
createButtonClick(m) == [m EXCEPT !.dom.active = @ \cup {"cardModal", "overlay"}]

---------------------------------------------------------------------------
(* cards.js: drag and drop                                                 *)

\* cardIds.map(id => tabCards.find(card => card.id === id)).filter(Boolean)
RECURSIVE foundCards(_, _)
foundCards(tabCards, cardIds) ==
    IF cardIds = <<>> THEN <<>>
    ELSE LET hits == SelectSeq(tabCards, LAMBDA card : card.id = Head(cardIds))
         IN  (IF hits = <<>> THEN <<>> ELSE <<hits[1]>>)
             \o foundCards(tabCards, Tail(cardIds))

\* reorderCardsInState of cards.js: the cards of the active tab as the store
\* holds them, in the sequence of cardIds, then the other tabs' cards of the
\* state.
reorderCardsInState(m, cardIds) ==
    LET tab == m.state.activeTab
        tabCards == getCardsByTab(m.store, tab)
        otherCards == SelectSeq(m.state.cards, LAMBDA card : card.tab # tab)
    IN  updateCards(m, Arr(foundCards(tabCards, cardIds) \o otherCards), TRUE)

\* handleDrop, cardIds being the ids of the container's cards after the
\* dragged card was put in its place; the value reorderCards returns is not
\* looked at.
handleDrop(m, cardIds, now, throws) ==
    LET out == reorderCards(m.store, cardIds, now, throws)
    IN  reorderCardsInState([m EXCEPT !.store = out.store], cardIds)

---------------------------------------------------------------------------
(* modals.js: the toast in the document                                    *)

\* dom.body holds the toast elements showToast has created, in the sequence
\* they were appended to document.body: whether the element is in the
\* document, whether it has the class show, and the timers set for it that
\* have not fired yet.
Toast(type) ==
    [type |-> type, attached |-> TRUE, show |-> FALSE, timers |-> {"entry", "dismissal"}]

\* document.querySelector('.toast'): the first toast of the document, 0 for
\* null.
querySelectorToast(d) ==
    LET present == {i \in 1..Len(d.body) : d.body[i].attached}
    IN  IF present = {} THEN 0 ELSE CHOOSE i \in present : \A j \in present : i <= j

\* The mutation of appendToast that leaves the toast on display in place.
appendToastKeepsExisting(d, type) == [d EXCEPT !.body = Append(@, Toast(type))]

\* showToast as the document sees it: the toast on display is removed, the
\* new one is appended and its two timers are set.
appendToast(d, type) ==
    LET existingToast == querySelectorToast(d)
        removed == IF existingToast = 0 THEN d
                   ELSE [d EXCEPT !.body[existingToast].attached = FALSE]
    IN  [removed EXCEPT !.body = Append(@, Toast(type))]

\* The callback of the 10 ms timer of toast i.
entryTimer(d, i) ==
    [d EXCEPT !.body[i].show = TRUE, !.body[i].timers = @ \ {"entry"}]

\* The callback of the 3000 ms timer of toast i, which sets the 300 ms timer.
dismissalTimer(d, i) ==
    [d EXCEPT !.body[i].show = FALSE,
              !.body[i].timers = (@ \ {"dismissal"}) \cup {"removal"}]

\* The callback of the 300 ms timer of toast i: toast.remove().
removalTimer(d, i) ==
    [d EXCEPT !.body[i].attached = FALSE, !.body[i].timers = @ \ {"removal"}]

---------------------------------------------------------------------------
(* The arguments the operations are called with.                           *)

TitleA == Str(<<"A">>)
TitleB == Str(<<"B">>)
PaddedB == Str(<<" ", "B", " ">>)
BlankTitle == Str(<<" ">>)
EmptyTitle == Str(<<>>)

\* What the form sends when the category select is left on its empty option.
FormCard == CardData(Undefined, TitleB, "2024-01-05", "", "concluido", "alta",
                     Null, "economia", 0)
\* A padded title, enumerated fields invalid or left out.
LooseCard == CardData(Undefined, PaddedB, Undefined, "bogus", "bogus", Undefined,
                      "https://a.io", "bogus", 0)

SaveInputs ==
    {FormCard, LooseCard,
     [FormCard EXCEPT !.title = BlankTitle],
     [FormCard EXCEPT !.title = EmptyTitle],
     [FormCard EXCEPT !.title = UndefinedTitle]}

\* A partial that also names id and createdAt, and one that empties the title.
EditData == CardData("zz", Str(<<" ", "A">>), Null, "bogus", "", "baixa", "",
                     "links", 9)

UpdateInputs == {EditData, [NoData EXCEPT !.title = EmptyTitle]}

StoredIds(value) == {value.cards[i].id : i \in 1..Len(value.cards)}

IdArgs(value) == (StoredIds(value) \ {NumberValue, Undefined}) \cup {"nope", ""}

RECURSIVE SeqsUpTo(_, _)
SeqsUpTo(S, n) ==
    IF n = 0 THEN {<<>>}
    ELSE LET shorter == SeqsUpTo(S, n - 1)
         IN  shorter \cup {Append(q, x) : q \in shorter, x \in S}

ReorderInputs(value) == SeqsUpTo(StoredIds(Arr(getAllCards(value))) \cup {"nope"}, MaxList)

External(id) == Card(id, TitleA, "", "pessoal", "pendente", "baixa", "", "economia",
                     0, 0, NoOrder)

ImportInputs(value) ==
    {InvalidJson, NoCardsArray, exportCards(value),
     CardsJson(<<External("x1")>>),
     CardsJson(<<External("x1"), External("x1")>>),
     CardsJson(<<External(Undefined), External(NumberValue)>>)}

\* Date.now() at a call: the clock has not moved or has moved on.
Now == {t \in {clock, clock + 1} : t <= MaxTime}

---------------------------------------------------------------------------
(* The state machine.  `last` holds the call that has just returned: its   *)
(* name, its arguments, the stored value before it, whether setItem was    *)
(* going to throw, and how the call ended.  The caller takes the result    *)
(* (Resume) before the next call is made.                                  *)

Call(op, id, data, ids, json, now, pre, out) ==
    [op |-> op, id |-> id, data |-> data, ids |-> ids, json |-> json, now |-> now,
     pre |-> pre, full |-> quota,
     ret |-> out.ret, writes |-> out.writes, threw |-> out.threw]

\* No handler of the page has run since the caller went on.
Quiet == [op |-> "quiet", name |-> "", arg |-> NullArg, query |-> UndefinedTitle,
          pre |-> initialState(2),
          listeners |-> <<>>, stored |-> NoValue, full |-> FALSE,
          form |-> BlankForm("rotina"),
          log |-> <<>>, toasts |-> <<>>, found |-> <<>>]

Idle == [op |-> "idle", id |-> "", data |-> NoData, ids |-> <<>>, json |-> InvalidJson,
         now |-> 0, pre |-> NoValue, full |-> FALSE,
         ret |-> Failed, writes |-> 0, threw |-> FALSE]

\* The page before app.js has run.
Unloaded(version) ==
    /\ env = [version |-> version, zone |-> "east"]
    /\ state = initialState(version)
    /\ listeners = <<>>
    /\ dom = [menuOpen |-> FALSE, searchOpen |-> FALSE, active |-> {},
              form |-> BlankForm("rotina"), saveDisabled |-> FALSE,
              linkToOpen |-> "", location |-> "", deleteFor |-> "",
              body |-> <<>>]
    /\ ui = Quiet

Init ==
    /\ store \in {NoValue, Unparsable, NotArray}
    /\ clock = 1
    /\ nextId = 1
    /\ quota = FALSE
    /\ last = Idle
    /\ Unloaded(2)

\* The bounds: at most n records, no order above MaxOrder.
Fits(value, n) ==
    /\ Len(value.cards) <= n
    /\ \A i \in 1..Len(value.cards) : value.cards[i].order <= MaxOrder

Save(n) ==
    \E cardData \in SaveInputs, t \in Now :
        LET out == saveCard(store, cardData, generateId(nextId), t, quota)
        IN  /\ last = Idle
            /\ nextId <= n
            /\ Fits(out.store, n)
            /\ store' = out.store
            /\ nextId' = IF titleMissing(cardData.title) THEN nextId ELSE nextId + 1
            /\ clock' = t
            /\ last' = Call("saveCard", "", cardData, <<>>, InvalidJson, t, store, out)
            /\ UNCHANGED <<quota, uiVars>>

UpdateCard ==
    \E cardId \in IdArgs(store), updates \in UpdateInputs, t \in Now :
        LET out == updateCard(store, cardId, updates, t, quota)
        IN  /\ last = Idle
            /\ store' = out.store
            /\ clock' = t
            /\ last' = Call("updateCard", cardId, updates, <<>>, InvalidJson, t, store, out)
            /\ UNCHANGED <<nextId, quota, uiVars>>

DeleteCard ==
    \E cardId \in IdArgs(store), t \in Now :
        LET out == deleteCard(store, cardId, quota)
        IN  /\ last = Idle
            /\ store' = out.store
            /\ clock' = t
            /\ last' = Call("deleteCard", cardId, NoData, <<>>, InvalidJson, t, store, out)
            /\ UNCHANGED <<nextId, quota, uiVars>>

Reorder(n) ==
    \E cardIds \in ReorderInputs(store), t \in Now :
        LET out == reorderCards(store, cardIds, t, quota)
        IN  /\ last = Idle
            /\ Fits(out.store, n)
            /\ store' = out.store
            /\ clock' = t
            /\ last' = Call("reorderCards", "", NoData, cardIds, InvalidJson, t, store, out)
            /\ UNCHANGED <<nextId, quota, uiVars>>

Import(n) ==
    \E json \in ImportInputs(store), t \in Now :
        LET out == importCards(store, json, t, quota)
        IN  /\ last = Idle
            /\ Fits(out.store, n)
            /\ store' = out.store
            /\ clock' = t
            /\ last' = Call("importCards", "", NoData, <<>>, json, t, store, out)
            /\ UNCHANGED <<nextId, quota, uiVars>>

ClearAllCards ==
    \E t \in Now :
        /\ last = Idle
        /\ store' = clearAllCards(store)
        /\ clock' = t
        /\ last' = Call("clearAllCards", "", NoData, <<>>, InvalidJson, t, store,
                        Return(store', Ret(TRUE, <<>>, 0, 0, 0), 0))
        /\ UNCHANGED <<nextId, quota, uiVars>>

Resume ==
    /\ last # Idle \/ ui # Quiet
    /\ last' = Idle
    /\ ui' = Quiet
    /\ UNCHANGED <<store, clock, nextId, quota, env, state, listeners, dom>>

SaveCard == Save(MaxCards)
ReorderCards == Reorder(MaxCards)
ImportCards == Import(MaxCards)

\* The storage layer with a localStorage that takes every write.
Next ==
    \/ SaveCard
    \/ UpdateCard
    \/ DeleteCard
    \/ ReorderCards
    \/ ImportCards
    \/ ClearAllCards
    \/ Resume

Spec == Init /\ [][Next]_vars

\* The storage layer without importCards: every id comes from generateId.
NextLocal ==
    \/ SaveCard
    \/ UpdateCard
    \/ DeleteCard
    \/ ReorderCards
    \/ ClearAllCards
    \/ Resume

SpecLocal == Init /\ [][NextLocal]_vars

\* localStorage fills up or is freed between two calls.
QuotaChange ==
    /\ last = Idle
    /\ quota' = ~quota
    /\ UNCHANGED <<store, clock, nextId, last, uiVars>>

NextQuota == Next \/ QuotaChange

SpecQuota == Init /\ [][NextQuota]_vars

\* Creation, import and reordering alone, with room for one more record.
SaveCardMore == Save(MaxCards + 1)
ReorderCardsMore == Reorder(MaxCards + 1)
ImportCardsMore == Import(MaxCards + 1)

NextReorder ==
    \/ SaveCardMore
    \/ ReorderCardsMore
    \/ ImportCardsMore
    \/ Resume

SpecReorder == Init /\ [][NextReorder]_vars

---------------------------------------------------------------------------
(* state.js on its own: the setters, subscribe and getState() as other     *)
(* modules call them, over a store that holds at most one card.            *)

\* The page as a handler finds it; log and toasts fill while it runs.
Page ==
    [store |-> store, state |-> state, listeners |-> listeners, dom |-> dom,
     env |-> env, log |-> <<>>, toasts |-> <<>>, found |-> <<>>]

\* The handler op(name, arg), or op(query), has run and left the page as m.
RanWith(op, name, arg, query, m) ==
    /\ last = Idle
    /\ ui = Quiet
    /\ state' = m.state
    /\ listeners' = m.listeners
    /\ dom' = m.dom
    /\ ui' = [op |-> op, name |-> name, arg |-> arg, query |-> query, pre |-> state,
              listeners |-> listeners, stored |-> store, full |-> quota,
              form |-> dom.form,
              log |-> m.log, toasts |-> m.toasts, found |-> m.found]
    /\ UNCHANGED <<env, quota, last>>

Ran(op, name, arg, m) == RanWith(op, name, arg, UndefinedTitle, m)

StateOnly == UNCHANGED <<store, clock, nextId>>

Callbacks == {"f", "g"}

StoredCard == newCard(LooseCard, <<>>, generateId(1), 1)

TabOnly(tab) == [NoData EXCEPT !.tab = tab]

Flags == {Bool(TRUE), Bool(FALSE), Text("yes")}

InitState ==
    /\ store \in {NoValue, Arr(<<StoredCard>>)}
    /\ clock = 1
    /\ nextId = 2
    /\ quota = FALSE
    /\ last = Idle
    /\ \E version \in {1, 2} : Unloaded(version)

Subscribe ==
    \E callback \in Callbacks :
        /\ Len(listeners) < MaxListeners
        /\ Ran("subscribe", callback, NullArg, subscribe(Page, callback))
        /\ StateOnly

Unsubscribe ==
    \E callback \in Callbacks :
        /\ Ran("unsubscribe", callback, NullArg, unsubscribe(Page, callback))
        /\ StateOnly

LoadInitialState ==
    /\ Ran("loadInitialState", "", NullArg, loadInitialState(Page))
    /\ StateOnly

SetActiveTab ==
    \E tabName \in {"rotina", "economia", "bogus"} :
        /\ Ran("setActiveTab", tabName, NullArg, setActiveTab(Page, tabName))
        /\ StateOnly

SetSelectedCard ==
    \E cardId \in {NullArg, Text("g1"), NumberArg} :
        /\ Ran("setSelectedCard", "", cardId, setSelectedCard(Page, cardId))
        /\ StateOnly

\* updateCards with something that is no array, with a new array of the
\* stored cards, with a new array of the cards the state has ("copy"), and
\* with getState().cards itself ("same").
UpdateCards ==
    \/ /\ Ran("updateCards", "none", NullArg, updateCards(Page, NotArray, TRUE))
       /\ StateOnly
    \/ /\ Ran("updateCards", "stored", NullArg,
              updateCards(Page, Arr(getAllCards(store)), TRUE))
       /\ StateOnly
    \/ /\ Ran("updateCards", "copy", NullArg, updateCards(Page, Arr(state.cards), TRUE))
       /\ StateOnly
    \/ /\ Ran("updateCards", "same", NullArg, updateCards(Page, Arr(state.cards), FALSE))
       /\ StateOnly

ReorderCardsOfState ==
    \E cardIds \in {NotArray, Arr(<<"g1">>), Arr(<<"nope">>)} :
        /\ Ran("reorderCards", IF cardIds.kind = "array" THEN "array" ELSE "none",
               NullArg, reorderCardsOfState(Page, cardIds))
        /\ StateOnly

SetModalVisibility ==
    \E modalName \in {"cardModal", "bogus"}, isVisible \in Flags :
        /\ Ran("setModalVisibility", modalName, isVisible,
               setModalVisibility(Page, modalName, isVisible))
        /\ StateOnly

SetSearchVisibility ==
    \E isVisible \in Flags :
        /\ Ran("setSearchVisibility", "", isVisible, setSearchVisibility(Page, isVisible))
        /\ StateOnly

SetSearchQuery ==
    \E query \in {Text(""), Text("a"), NumberArg} :
        /\ Ran("setSearchQuery", "", query, setSearchQuery(Page, query))
        /\ StateOnly

RefreshStats ==
    /\ Ran("refreshStats", "", NullArg, refreshStats(Page))
    /\ StateOnly

\* A caller changes the object getState() gave it: a property of the object
\* itself, or one of the objects under cards, modals and stats.
mutateCopy(m, key) ==
    CASE key = "modals" -> [m EXCEPT !.state.modals.cardModal = TRUE]
      [] key = "stats" -> [m EXCEPT !.state.stats.byTab.rotina = 0]
      [] key = "cards" -> [m EXCEPT !.state.cards = <<>>]
      [] OTHER -> m

MutateCopy ==
    \E key \in {"activeTab", "modals", "stats", "cards"} :
        /\ Ran("mutateCopy", key, NullArg, mutateCopy(Page, key))
        /\ StateOnly

\* Storage updateCard moves the stored card to another tab.
MoveStoredCard ==
    \E tab \in {"rotina", "economia"} :
        /\ last = Idle
        /\ ui = Quiet
        /\ store.kind = "array"
        /\ store' = updateCard(store, generateId(1), TabOnly(tab), clock, FALSE).store
        /\ store' # store
        /\ UNCHANGED <<clock, nextId, quota, last, uiVars>>

NextState ==
    \/ Subscribe
    \/ Unsubscribe
    \/ LoadInitialState
    \/ SetActiveTab
    \/ SetSelectedCard
    \/ UpdateCards
    \/ ReorderCardsOfState
    \/ SetModalVisibility
    \/ SetSearchVisibility
    \/ SetSearchQuery
    \/ RefreshStats
    \/ MutateCopy
    \/ MoveStoredCard
    \/ Resume

SpecState == InitState /\ [][NextState]_vars

\* The same with the state.js of src/js/navigation.js loaded.
InitState2 ==
    /\ InitState
    /\ env.version = 2

SpecState2 == InitState2 /\ [][NextState]_vars

---------------------------------------------------------------------------
(* The page: app.js has subscribed its listener and loaded the state; the  *)
(* user clicks, types and presses keys, and the handlers of navigation.js, *)
(* cards.js, modals.js and app.js run.                                     *)

\* initApp: loadInitialState, then setupStateListener.
Booted(version) ==
    LET blank == [store |-> store, state |-> initialState(version), listeners |-> <<>>,
                  dom |-> [menuOpen |-> FALSE, searchOpen |-> FALSE, active |-> {},
                           form |-> BlankForm("rotina"), saveDisabled |-> FALSE,
                           linkToOpen |-> "", location |-> "", deleteFor |-> "",
                           body |-> <<>>],
                  env |-> [version |-> version, zone |-> "east"],
                  log |-> <<>>, toasts |-> <<>>, found |-> <<>>]
    IN  subscribe(loadInitialState(blank), "app")

\* The page with either state.js, once initApp has run.
Loaded ==
    /\ \E version \in {1, 2} :
          /\ env = Booted(version).env
          /\ state = Booted(version).state
          /\ listeners = Booted(version).listeners
          /\ dom = Booted(version).dom
    /\ ui = Quiet

InitUI ==
    /\ store = Arr(<<StoredCard>>)
    /\ clock = 1
    /\ nextId = 2
    /\ quota = FALSE
    /\ last = Idle
    /\ Loaded

\* The cards renderCards has put on the page.
Rendered == {i \in 1..Len(state.cards) : state.cards[i].tab = state.activeTab}

Switch(tabs) ==
    \E tabName \in tabs :
        /\ Ran("switchTab", tabName, NullArg, switchTab(Page, tabName))
        /\ StateOnly

SwitchTab == Switch(validTabs)

ToggleMobileMenu ==
    /\ Ran("toggleMobileMenu", "", NullArg, toggleMobileMenu(Page))
    /\ StateOnly

ToggleSearch ==
    /\ Ran("toggleSearch", "", NullArg, toggleSearch(Page))
    /\ StateOnly

ToggleSearchShortcut ==
    /\ Ran("toggleSearchShortcut", "", NullArg, toggleSearchShortcut(Page))
    /\ StateOnly

CardClick ==
    \E i \in Rendered :
        /\ Ran("cardClick", state.cards[i].id, NullArg, cardClick(Page, state.cards[i]))
        /\ StateOnly

EditClick ==
    \E i \in Rendered :
        /\ Ran("openEditCardModal", state.cards[i].id, NullArg,
               openEditCardModal(setSelectedCard(Page, Text(state.cards[i].id)),
                                 state.cards[i]))
        /\ StateOnly

DeleteClick ==
    \E i \in Rendered :
        /\ Ran("showDeleteModal", state.cards[i].id, NullArg,
               showDeleteModal(setSelectedCard(Page, Text(state.cards[i].id)),
                               state.cards[i]))
        /\ StateOnly

CreateNewCard ==
    /\ Ran("createNewCard", "", NullArg, createNewCard(Page))
    /\ StateOnly

\* Ctrl+N
NewCardShortcut ==
    /\ Ran("newCardShortcut", "", NullArg,
           setModalVisibility(closeAllModals(Page), "cardModal", Bool(TRUE)))
    /\ StateOnly

CloseAllModals ==
    /\ Ran("closeAllModals", "", NullArg, closeAllModals(Page))
    /\ StateOnly

\* The element of the create/edit modal is on display.
FormShown == "cardModal" \in dom.active

InputTitle ==
    \E title \in {EmptyTitle, TitleA} :
        /\ FormShown
        /\ Ran("input", "title", NullArg, inputField(Page, "title", title))
        /\ StateOnly

\* Any module hides the create/edit modal on its own.
HideCardModal ==
    /\ Ran("setModalVisibility", "cardModal", Bool(FALSE),
           setModalVisibility(Page, "cardModal", Bool(FALSE)))
    /\ StateOnly

\* The form is submitted; on the create path saveCard takes the next id.
SubmitForm ==
    \E t \in Now :
        LET creates == validateForm(dom.form) /\ dom.form.cardId = ""
            m == handleFormSubmit(Page, generateId(nextId), t, quota)
        IN  /\ FormShown
            /\ creates => nextId <= MaxCards
            /\ Ran("handleFormSubmit",
                   IF ~validateForm(dom.form) THEN "invalid"
                   ELSE IF creates THEN "create" ELSE "edit",
                   NullArg, m)
            /\ store' = m.store
            /\ clock' = t
            /\ nextId' = IF creates THEN nextId + 1 ELSE nextId

\* localStorage fills up or is freed while the page is open.
QuotaChangeUI ==
    /\ last = Idle
    /\ ui = Quiet
    /\ quota' = ~quota
    /\ UNCHANGED <<store, clock, nextId, last, uiVars>>

\* Moving between the tabs with the menu, the search bar and the modals
\* open or closed.
NextNav ==
    \/ SwitchTab
    \/ ToggleMobileMenu
    \/ ToggleSearch
    \/ ToggleSearchShortcut
    \/ CardClick
    \/ DeleteClick
    \/ CreateNewCard
    \/ CloseAllModals
    \/ Resume

SpecNav == InitUI /\ [][NextNav]_vars

SwitchNear == Switch({"rotina", "economia"})

\* The modals and the form, over two of the tabs.
NextModals ==
    \/ SwitchNear
    \/ CardClick
    \/ EditClick
    \/ DeleteClick
    \/ CreateNewCard
    \/ NewCardShortcut
    \/ CloseAllModals
    \/ HideCardModal
    \/ InputTitle
    \/ SubmitForm
    \/ QuotaChangeUI
    \/ Resume

SpecModals == InitUI /\ [][NextModals]_vars

---------------------------------------------------------------------------
(* The search over two stored cards, one in each of two tabs.              *)

Accented == Str(<<"A'">>)

SearchTitles == {Accented, Str(<<"a">>), Str(<<"C", "a'">>)}

SearchStore(title, category) ==
    LET first == newCard(CardData(Undefined, title, "", category, "pendente", "media",
                                  "", "rotina", 0), <<>>, generateId(1), 1)
        second == newCard(CardData(Undefined, TitleB, "", "outro", "pendente", "media",
                                   "", "economia", 0), <<first>>, generateId(2), 1)
    IN  Arr(<<first, second>>)

Queries ==
    {Str(<<>>), Str(<<" ">>), Str(<<"a">>), Str(<<"A">>), Str(<<"a'">>), Str(<<"b">>),
     Str(<<"c", "a">>), Str(<<" ", "a", " ">>), Str(<<"o", "u">>), NumberTitle}

InitSearch ==
    /\ \E title \in SearchTitles, category \in {"", "casa"} :
          store = SearchStore(title, category)
    /\ clock = 1
    /\ nextId = 3
    /\ quota = FALSE
    /\ last = Idle
    /\ Loaded

FilterCardsBySearch ==
    \E query \in Queries :
        /\ RanWith("filterCardsBySearch", "", NullArg, query,
                   [Page EXCEPT !.found = filterCardsBySearch(Page, query)])
        /\ StateOnly

GetCardsForActiveTab ==
    /\ Ran("getCardsForActiveTab", "", NullArg,
           [Page EXCEPT !.found = getCardsForActiveTab(Page)])
    /\ StateOnly

NextSearch ==
    \/ FilterCardsBySearch
    \/ GetCardsForActiveTab
    \/ SwitchNear
    \/ Resume

SpecSearch == InitSearch /\ [][NextSearch]_vars

---------------------------------------------------------------------------
(* The delete dialog over two stored cards of one tab.  dom.deleteFor is   *)
(* no part of the page: it keeps the id of the card whose delete button    *)
(* opened the dialog.                                                      *)

PairStore ==
    LET second == newCard(CardData(Undefined, TitleA, "", "casa", "pendente", "media",
                                   "", "rotina", 0),
                          <<StoredCard>>, generateId(2), 1)
    IN  Arr(<<StoredCard, second>>)

InitDelete ==
    /\ store = PairStore
    /\ clock = 1
    /\ nextId = 3
    /\ quota = FALSE
    /\ last = Idle
    /\ Loaded

OpenDeleteDialog ==
    \E i \in Rendered :
        LET card == state.cards[i]
            shown == showDeleteModal(setSelectedCard(Page, Text(card.id)), card)
        IN  /\ Ran("showDeleteModal", card.id, NullArg,
                   [shown EXCEPT !.dom.deleteFor = card.id])
            /\ StateOnly

ConfirmDelete ==
    LET m == confirmDelete(Page, quota)
    IN  /\ state.modals.deleteModal
        /\ Ran("confirmDelete", "", NullArg, m)
        /\ store' = m.store
        /\ UNCHANGED <<clock, nextId>>

NextDelete ==
    \/ OpenDeleteDialog
    \/ ConfirmDelete
    \/ SwitchNear
    \/ CardClick
    \/ CloseAllModals
    \/ Resume

SpecDelete == InitDelete /\ [][NextDelete]_vars

---------------------------------------------------------------------------
(* The link dialog: the first of the two stored cards has a link.          *)

\* The link button of a card.
LinkClick ==
    \E i \in Rendered :
        /\ ~Falsy(state.cards[i].link)
        /\ Ran("showLinkModal", state.cards[i].id, NullArg,
               showLinkModal(setSelectedCard(Page, Text(state.cards[i].id)),
                             state.cards[i]))
        /\ StateOnly

\* Another module opens the dialog through modals.js.
OpenLinkModal ==
    \E i \in Rendered :
        /\ Ran("openLinkModal", state.cards[i].id, NullArg,
               openLinkModal(Page, state.cards[i]))
        /\ StateOnly

\* The confirm button, on a page that has not navigated away.
ConfirmLinkOpen ==
    /\ state.modals.linkModal
    /\ dom.location = ""
    /\ Ran("confirmLinkOpen", "", NullArg, confirmLinkOpen(Page))
    /\ StateOnly

NextLink ==
    \/ CardClick
    \/ LinkClick
    \/ OpenLinkModal
    \/ ConfirmLinkOpen
    \/ SwitchNear
    \/ CloseAllModals
    \/ Resume

SpecLink == InitDelete /\ [][NextLink]_vars

---------------------------------------------------------------------------
(* Opening the form for a new card.                                        *)

CreateButtonClick ==
    /\ Ran("createButtonClick", "", NullArg, createButtonClick(Page))
    /\ StateOnly

OpenCardModal ==
    \E defaultTab \in {"", "economia"} :
        /\ Ran("openCardModal", defaultTab, NullArg, openCardModal(Page, <<>>, defaultTab))
        /\ StateOnly

NextCreate ==
    \/ CreateButtonClick
    \/ CreateNewCard
    \/ NewCardShortcut
    \/ OpenCardModal
    \/ SwitchNear
    \/ CloseAllModals
    \/ InputTitle
    \/ SubmitForm
    \/ Resume

SpecCreate == InitUI /\ [][NextCreate]_vars

---------------------------------------------------------------------------
(* Typing into the form and submitting it.                                 *)

InputLink ==
    \E link \in {"", "bad", "app://x"} :
        /\ FormShown
        /\ Ran("input", "link", NullArg, inputField(Page, "link", link))
        /\ StateOnly

NextForm ==
    \/ CreateNewCard
    \/ EditClick
    \/ InputTitle
    \/ InputLink
    \/ SubmitForm
    \/ CloseAllModals
    \/ Resume

SpecForm == InitUI /\ [][NextForm]_vars

---------------------------------------------------------------------------
(* The statistics of the stored cards, in a time zone east or west of      *)
(* Greenwich.                                                              *)

\* A pending card of the tab economia, with or without a date.
PendingInputs ==
    {CardData(Undefined, TitleA, date, "", "pendente", "media", "", "economia", 0) :
        date \in {"", "2024-01-04", "2024-01-05", "2024-01-06"}}

InitStats ==
    /\ store = NoValue
    /\ clock = 1
    /\ nextId = 1
    /\ quota = FALSE
    /\ last = Idle
    /\ env \in [version : {1, 2}, zone : {"east", "west"}]
    /\ state = initialState(env.version)
    /\ listeners = <<>>
    /\ dom = Booted(env.version).dom
    /\ ui = Quiet

SavePending ==
    \E cardData \in PendingInputs \cup {FormCard}, t \in Now :
        LET out == saveCard(store, cardData, generateId(nextId), t, quota)
        IN  /\ last = Idle
            /\ ui = Quiet
            /\ nextId <= MaxCards
            /\ store' = out.store
            /\ nextId' = nextId + 1
            /\ clock' = t
            /\ last' = Call("saveCard", "", cardData, <<>>, InvalidJson, t, store, out)
            /\ UNCHANGED <<quota, uiVars>>

NextStats ==
    \/ SavePending
    \/ RefreshStats
    \/ Resume

SpecStats == InitStats /\ [][NextStats]_vars

---------------------------------------------------------------------------
(* Creating, editing, deleting and dragging cards while localStorage fills *)
(* up and is freed.                                                        *)

\* A card on display is dragged and dropped at a place among the others.
HandleDrop ==
    \E i \in Rendered, t \in Now :
        LET cardId == state.cards[i].id
            rest == SelectSeq(Ids(SelectSeq(state.cards,
                                            LAMBDA card : card.tab = state.activeTab)),
                              LAMBDA id : id # cardId)
        IN  \E p \in 0..Len(rest) :
                LET cardIds == SubSeq(rest, 1, p) \o <<cardId>>
                               \o SubSeq(rest, p + 1, Len(rest))
                    m == handleDrop(Page, cardIds, t, quota)
                IN  /\ Ran("handleDrop", cardId, NullArg, m)
                    /\ store' = m.store
                    /\ clock' = t
                    /\ UNCHANGED nextId

NextDrop ==
    \/ CreateNewCard
    \/ EditClick
    \/ InputTitle
    \/ SubmitForm
    \/ OpenDeleteDialog
    \/ ConfirmDelete
    \/ HandleDrop
    \/ QuotaChangeUI
    \/ Resume

SpecDrop == InitUI /\ [][NextDrop]_vars

---------------------------------------------------------------------------
(* The toasts and their timers.  The handlers of the page record their     *)
(* calls of showToast in the log; here the document and the timers are     *)
(* followed.  A timer fires once every timer set earlier with a delay no   *)
(* longer than its own has fired, so the 10 ms timer of a toast fires      *)
(* before its 3000 ms timer; the timers of different toasts interleave     *)
(* freely.                                                                 *)

MaxToasts == 3

Toasts == 1..MaxToasts

Pending(i, timer) == i <= Len(dom.body) /\ timer \in dom.body[i].timers

DocumentOnly == UNCHANGED <<store, clock, nextId, quota, last, env, state, listeners, ui>>

ShowToast ==
    \E type \in {"success", "error"} :
        /\ Len(dom.body) < MaxToasts
        /\ dom' = appendToast(dom, type)
        /\ DocumentOnly

EntryTimer(i) ==
    /\ Pending(i, "entry")
    /\ dom' = entryTimer(dom, i)
    /\ DocumentOnly

DismissalTimer(i) ==
    /\ Pending(i, "dismissal")
    /\ ~Pending(i, "entry")
    /\ dom' = dismissalTimer(dom, i)
    /\ DocumentOnly

RemovalTimer(i) ==
    /\ Pending(i, "removal")
    /\ dom' = removalTimer(dom, i)
    /\ DocumentOnly

EntryTimers == \E i \in Toasts : EntryTimer(i)
DismissalTimers == \E i \in Toasts : DismissalTimer(i)
RemovalTimers == \E i \in Toasts : RemovalTimer(i)

NextToast ==
    \/ ShowToast
    \/ EntryTimers
    \/ DismissalTimers
    \/ RemovalTimers

SpecToast == InitUI /\ [][NextToast]_vars

\* The event loop runs the callback of every timer that is due.
TimersFire ==
    \A i \in Toasts :
        /\ WF_vars(EntryTimer(i))
        /\ WF_vars(DismissalTimer(i))
        /\ WF_vars(RemovalTimer(i))

SpecToastFair == SpecToast /\ TimersFire

---------------------------------------------------------------------------
(* Reading a stored value that anything may have written: an older version *)
(* of the program, another page of the origin, the user.                   *)

Raw(id, title, createdAt, order) ==
    Card(id, title, "", "outro", "pendente", "media", "", "rotina",
         createdAt, createdAt, order)

RawPool ==
    {Raw("a", TitleA, 5, 5), Raw("b", TitleB, 1, 1), Raw("c", TitleA, 2, 1),
     Raw("x", TitleA, 3, NoOrder), Raw("y", TitleB, 0, NoOrder),
     Raw("e", EmptyTitle, 4, 0), Raw("t", NumberTitle, 4, 0),
     Raw(NumberValue, TitleA, 4, 0), Raw("", TitleA, 4, 0), NonObject}

RawValues ==
    {NoValue, Unparsable, NotArray} \cup {Arr(cards) : cards \in SeqsUpTo(RawPool, MaxRaw)}

InitRead ==
    /\ store \in RawValues
    /\ clock = 1
    /\ nextId = 1
    /\ quota = FALSE
    /\ last = Idle
    /\ Unloaded(2)

ReadAll ==
    \E cards \in getAllOutcomes(store) :
        /\ last = Idle
        /\ last' = [Idle EXCEPT !.op = "getAllCards", !.pre = store,
                                !.ret = Ret(TRUE, cards, 0, 0, 0),
                                !.threw = getAllCardsResult(store).threw]
        /\ UNCHANGED <<store, clock, nextId, quota, uiVars>>

NextRead == ReadAll \/ Resume

SpecRead == InitRead /\ [][NextRead]_vars

---------------------------------------------------------------------------
(* What the claims speak of.                                               *)

\* getAll() before and after the call that has just returned.
Before == getAllCards(last.pre)
After == getAllCards(store)

HasId(cards, id) == \E i \in 1..Len(cards) : cards[i].id = id

\* s without its k-th element.
Without(s, k) == SubSeq(s, 1, k - 1) \o SubSeq(s, k + 1, Len(s))

\* A record without the two fields a reordering may change.
Content(card) == [card EXCEPT !.order = 0, !.updatedAt = 0]

\* The default coercion of the data model: a value of the enumeration is
\* kept, anything else becomes the default.
Coerced(v, valid, default) == IF v \in valid THEN v ELSE default

UniqueIds(cards) ==
    \A i, j \in 1..Len(cards) : cards[i].id = cards[j].id => i = j

\* Every record the program has stored carries an order, so that the sort
\* callback of getAllCards only ever compares orders.
OrdersPresent == \A i \in 1..Len(store.cards) : store.cards[i].order # NoOrder

---------------------------------------------------------------------------
(* C1: saveCard returns null and leaves the stored value alone when the    *)
(* title is missing, empty or blank; otherwise it returns a card, and      *)
(* getAll() then holds the earlier records plus exactly that one new       *)
(* record, whose title is the trimmed input title, whose date and link are *)
(* the input's and whose enumerated fields are the input's after default   *)
(* coercion.                                                               *)

C1_SaveCard ==
    last.op = "saveCard" =>
        IF titleMissing(last.data.title)
        THEN ~last.ret.ok /\ store = last.pre
        ELSE /\ last.ret.ok
             /\ Len(last.ret.cards) = 1
             /\ \E k \in 1..Len(After) :
                    /\ After[k] = last.ret.cards[1]
                    /\ Without(After, k) = Before
             /\ LET card == last.ret.cards[1]
                IN  /\ card.title = Str(Trim(last.data.title.chars))
                    /\ card.date = orEmpty(last.data.date)
                    /\ card.link = orEmpty(last.data.link)
                    /\ card.category =
                          Coerced(last.data.category, getAvailableCategories, "outro")
                    /\ card.status = Coerced(last.data.status, getAvailableStatus, "pendente")
                    /\ card.priority =
                          Coerced(last.data.priority, getAvailablePriorities, "media")
                    /\ card.tab = Coerced(last.data.tab, validTabs, "rotina")

---------------------------------------------------------------------------
(* C2: a card created by saveCard gets order = the number of records       *)
(* stored before the call and is the last element of getAll().             *)

C2_NewCardIsLast ==
    (last.op = "saveCard" /\ last.ret.ok) =>
        /\ last.ret.cards[1].order = Len(Before)
        /\ After # <<>>
        /\ After[Len(After)] = last.ret.cards[1]

---------------------------------------------------------------------------
(* C3: every record written by saveCard or updateCard has its category,    *)
(* status, priority and tab inside their enumerations.                     *)

C3_EnumeratedFields ==
    (last.op \in {"saveCard", "updateCard"} /\ last.ret.ok) =>
        LET card == last.ret.cards[1]
        IN  /\ card.category \in getAvailableCategories
            /\ card.status \in getAvailableStatus
            /\ card.priority \in getAvailablePriorities
            /\ card.tab \in validTabs

---------------------------------------------------------------------------
(* C4: no two records of the collection have the same id.                  *)

C4_UniqueIds == UniqueIds(After)

---------------------------------------------------------------------------
(* C5: updateCard returns null and leaves the stored value alone when no   *)
(* record has the id; otherwise the record keeps its id and createdAt      *)
(* whatever the partial says, its updatedAt is the time of the call, the   *)
(* partial's fields are merged in and every other record is as it was.     *)

Merged(old, new, given) == IF given = Undefined THEN new = old ELSE new = given

MergedEnum(old, new, given, valid) ==
    /\ given = Undefined => new = old
    /\ given \in valid => new = given

C5_UpdateCard ==
    last.op = "updateCard" =>
        IF ~HasId(Before, last.id)
        THEN ~last.ret.ok /\ store = last.pre
        ELSE LET k == findIndex(Before, last.id)
                 old == Before[k]
                 card == last.ret.cards[1]
                 given == last.data
             IN  /\ last.ret.ok
                 /\ card.id = last.id
                 /\ card.createdAt = old.createdAt
                 /\ card.updatedAt = last.now
                 /\ card.order = old.order
                 /\ Merged(old.date, card.date, given.date)
                 /\ Merged(old.link, card.link, given.link)
                 /\ MergedEnum(old.category, card.category, given.category,
                               getAvailableCategories)
                 /\ MergedEnum(old.status, card.status, given.status, getAvailableStatus)
                 /\ MergedEnum(old.priority, card.priority, given.priority,
                               getAvailablePriorities)
                 /\ MergedEnum(old.tab, card.tab, given.tab, validTabs)
                 /\ IF given.title.type = "undefined"
                    THEN card.title = old.title
                    ELSE Trim(card.title.chars) = Trim(given.title.chars)
                 /\ store.kind = "array"
                 /\ Len(store.cards) = Len(Before)
                 /\ store.cards[k] = card
                 /\ \A j \in 1..Len(Before) : j # k => store.cards[j] = Before[j]

\* An update of one of two records, by a partial that names another id and
\* createdAt, at a later millisecond than the record's last change.
C5_Witness ==
    /\ last.op = "updateCard"
    /\ last.ret.ok
    /\ Len(Before) = 2
    /\ last.data.id = "zz"
    /\ last.data.createdAt # Before[findIndex(Before, last.id)].createdAt
    /\ last.ret.cards[1].updatedAt # Before[findIndex(Before, last.id)].updatedAt
    /\ last.ret.cards[1].title # Before[findIndex(Before, last.id)].title

---------------------------------------------------------------------------
(* C6: deleteCard returns false and leaves the stored value alone when the *)
(* id is absent; otherwise exactly that record goes and the n remaining    *)
(* records carry the orders 0..n-1 in their earlier getAll() order.        *)

C6_DeleteCard ==
    last.op = "deleteCard" =>
        IF ~HasId(Before, last.id)
        THEN ~last.ret.ok /\ store = last.pre
        ELSE /\ last.ret.ok
             /\ \E k \in 1..Len(Before) :
                    /\ Before[k].id = last.id
                    /\ After = compactOrder(Without(Before, k))
             /\ \A i \in 1..Len(After) : After[i].order = i - 1

---------------------------------------------------------------------------
(* C7: after reorderCards(ids), for any list, every stored record whose id *)
(* is in the list has order = the index of its id in the list, every       *)
(* record whose id is not in the list comes after all listed records in    *)
(* getAll(), and the omitted records keep their relative order.            *)

Omitted(cards, ids) == SelectSeq(cards, LAMBDA c : ~includes(ids, c.id))

C7_Reorder ==
    (last.op = "reorderCards" /\ last.ret.ok) =>
        /\ \A i \in 1..Len(After) :
              includes(last.ids, After[i].id) =>
                  \E k \in 1..Len(last.ids) :
                      last.ids[k] = After[i].id /\ After[i].order = k - 1
        /\ \A i, j \in 1..Len(After) :
              (includes(last.ids, After[i].id) /\ ~includes(last.ids, After[j].id))
                  => i < j
        /\ Ids(Omitted(After, last.ids)) = Ids(Omitted(Before, last.ids))

---------------------------------------------------------------------------
(* C8: reorderCards with the id sequence of one tab's cards, in any order, *)
(* keeps the records and all their fields but order and updatedAt, puts    *)
(* that tab's cards into the given sequence in getAll() and keeps the      *)
(* relative order of every other tab's cards.                              *)

OfTab(cards, tab) == SelectSeq(cards, LAMBDA c : c.tab = tab)

Contents(cards) == [i \in 1..Len(cards) |-> Content(cards[i])]

\* s and t hold the same elements the same number of times.
SameBag(s, t) ==
    /\ Len(s) = Len(t)
    /\ \A x \in {s[i] : i \in 1..Len(s)} :
          Cardinality({i \in 1..Len(s) : s[i] = x})
              = Cardinality({i \in 1..Len(t) : t[i] = x})

AllTabs(cards) == {cards[i].tab : i \in 1..Len(cards)}

IsTabSequence(ids, tab) ==
    /\ ids # <<>>
    /\ SameBag(ids, Ids(OfTab(Before, tab)))

C8_TabReorder ==
    \A tab \in AllTabs(Before) :
        (last.op = "reorderCards" /\ last.ret.ok /\ IsTabSequence(last.ids, tab)) =>
            /\ SameBag(Contents(After), Contents(Before))
            /\ Ids(OfTab(After, tab)) = last.ids
            /\ \A other \in AllTabs(Before) \ {tab} :
                  Contents(OfTab(After, other)) = Contents(OfTab(Before, other))

---------------------------------------------------------------------------
(* C9: getAll() never throws; it returns the empty list when nothing is    *)
(* stored or the stored value is no JSON or no array; otherwise it returns *)
(* exactly the stored records with a non-empty string id and a non-empty   *)
(* string title, sorted by ascending order.                                *)

StringIdAndTitle(card) ==
    /\ card.id \notin {Undefined, Null, NumberValue, ""}
    /\ card.title.type = "string"
    /\ Len(card.title.chars) > 0

Kept(value) == SelectSeq(value.cards, StringIdAndTitle)

Ascending(cards) ==
    \A i, j \in 1..Len(cards) :
        (i < j /\ cards[i].order # NoOrder /\ cards[j].order # NoOrder)
            => cards[i].order <= cards[j].order

AllOrdered(cards) == \A i \in 1..Len(cards) : cards[i].order # NoOrder
NoneOrdered(cards) == \A i \in 1..Len(cards) : cards[i].order = NoOrder

\* sorted takes s into a sequence that never puts a greater key first and
\* keeps the elements of equal key in the sequence they have in s.
StableBy(sorted, s, key(_)) ==
    \E f \in [1..Len(s) -> 1..Len(s)] :
        /\ \A i, j \in 1..Len(s) : f[i] = f[j] => i = j
        /\ \A i \in 1..Len(s) : sorted[i] = s[f[i]]
        /\ \A i, j \in 1..Len(s) :
              i < j => \/ key(s[f[i]]) < key(s[f[j]])
                       \/ (key(s[f[i]]) = key(s[f[j]]) /\ f[i] < f[j])

---------------------------------------------------------------------------
(* C10: when setItem throws during saveCard, updateCard, deleteCard,       *)
(* reorderCards or importCards, the call returns null / false /            *)
(* success: false, no exception reaches the caller, the stored value is    *)
(* what it was before the call and setItem was called once.                *)

Mutating == {"saveCard", "updateCard", "deleteCard", "reorderCards", "importCards"}

C10_WriteFailure ==
    (last.op \in Mutating /\ last.full /\ last.writes > 0) =>
        /\ ~last.ret.ok
        /\ last.ret = Failed
        /\ ~last.threw
        /\ store = last.pre
        /\ last.writes = 1

\* A reordering that swaps the two stored records has had its write refused.
C10_Witness ==
    /\ last.op = "reorderCards"
    /\ last.full
    /\ last.writes = 1
    /\ Len(Before) = 2
    /\ last.ids = <<Before[2].id, Before[1].id>>

---------------------------------------------------------------------------
(* C11: importCards(exportCards()) on any stored collection reports        *)
(* success with imported = 0 and skipped = the number of records of the    *)
(* collection, and getAll() is what it was.                                *)

C11_RoundTrip ==
    (last.op = "importCards" /\ last.json = exportCards(last.pre)) =>
        /\ last.ret.ok
        /\ last.ret.imported = 0
        /\ last.ret.skipped = Len(Before)
        /\ last.ret.total = Len(Before)
        /\ After = Before

\* The export of two records has been imported again.
C11_Witness ==
    /\ last.op = "importCards"
    /\ last.json = exportCards(last.pre)
    /\ Len(Before) = 2
    /\ last.ret.skipped = 2
    /\ Before[1].id # Before[2].id

---------------------------------------------------------------------------
(* C12: changing the object getState() returned, its cards, modals and     *)
(* stats included, never changes the state that state.js holds.            *)

C12_DefensiveCopy == ui.op = "mutateCopy" => state = ui.pre

---------------------------------------------------------------------------
(* C13: a listener subscribed more than once is called once per change of  *)
(* the state, and once its unsubscribe function has been called it is no   *)
(* longer registered, so that no later change calls it.                    *)

Setters ==
    {"setActiveTab", "setSelectedCard", "updateCards", "reorderCards",
     "setModalVisibility", "setSearchVisibility", "setSearchQuery", "refreshStats"}

\* How often the handler that has just run called the listener.
Times(callback) == Cardinality({i \in 1..Len(ui.log) : ui.log[i].listener = callback})

Registered(callback, list) == \E i \in 1..Len(list) : list[i] = callback

C13_SubscribeOnce ==
    /\ ui.op \in Setters =>
          \A callback \in Callbacks :
              /\ Times(callback) <= 1
              /\ Times(callback) = 1 => Registered(callback, ui.listeners)
    /\ ui.op = "unsubscribe" => ~Registered(ui.name, listeners)

---------------------------------------------------------------------------
(* C14: a setter called with an argument of the wrong type or outside its  *)
(* domain changes no field of the state and calls no listener; and a       *)
(* setter call that leaves the state equal to what it was calls no         *)
(* listener.                                                               *)

InvalidCall ==
    \/ ui.op = "setActiveTab" /\ ui.name \notin {"rotina", "economia", "lembretes", "links"}
    \/ ui.op = "setSelectedCard" /\ ui.arg.type \notin {"string", "null"}
    \/ ui.op = "setModalVisibility"
          /\ (ui.name \notin DOMAIN ui.pre.modals \/ ui.arg.type # "boolean")
    \/ ui.op = "setSearchVisibility" /\ ui.arg.type # "boolean"
    \/ ui.op = "setSearchQuery" /\ ui.arg.type # "string"
    \/ ui.op \in {"updateCards", "reorderCards"} /\ ui.name = "none"

C14_InvalidOrUnchanged ==
    /\ InvalidCall => (state = ui.pre /\ ui.log = <<>>)
    /\ (ui.op \in Setters /\ state = ui.pre) => ui.log = <<>>

---------------------------------------------------------------------------
(* C15: a setter call that changes any field of the state, the fields of   *)
(* stats and modals included, calls every subscribed listener exactly once *)
(* with the new state.                                                     *)

C15_NotifyOnChange ==
    (ui.op \in Setters /\ state # ui.pre) =>
        /\ \A callback \in Callbacks :
              Registered(callback, ui.listeners) => Times(callback) = 1
        /\ \A i \in 1..Len(ui.log) : ui.log[i].seen = state

---------------------------------------------------------------------------
(* C16: a switchTab that moves to another of the four tabs ends with that  *)
(* tab active, selectedCardId null, the mobile menu closed and the search  *)
(* closed: the search bar hidden, isSearchVisible false and searchQuery    *)
(* empty.                                                                  *)

TabTransition == ui.op = "switchTab" /\ ui.name # ui.pre.activeTab

---------------------------------------------------------------------------
(* C17: right after a tab switch none of the flags cardModal, linkModal    *)
(* and deleteModal is true.                                                *)

C17_SwitchClosesModals ==
    TabTransition => \A modalName \in modalElements : ~state.modals[modalName]

---------------------------------------------------------------------------
(* C18: after closeAllModals every modal flag is false, the form holds its *)
(* blank defaults (no id, title, date, category and link, status pendente, *)
(* priority media, the active tab) and selectedCardId is null; and after   *)
(* any setModalVisibility('cardModal', false) selectedCardId is null.      *)

HidesCardModal ==
    ui.op = "setModalVisibility" /\ ui.name = "cardModal" /\ ui.arg = Bool(FALSE)

C18_CloseAllModals ==
    /\ ui.op = "closeAllModals" =>
          /\ \A modalName \in DOMAIN state.modals : ~state.modals[modalName]
          /\ dom.form.cardId = ""
          /\ dom.form.title = Str(<<>>)
          /\ dom.form.date = ""
          /\ dom.form.category = ""
          /\ dom.form.link = ""
          /\ dom.form.status = "pendente"
          /\ dom.form.priority = "media"
          /\ dom.form.tab = state.activeTab
          /\ state.selectedCardId = Null
    /\ HidesCardModal => state.selectedCardId = Null

\* closeAllModals has closed the edit modal of a selected card whose fields
\* were in the form.
C18_Witness ==
    /\ ui.op = "closeAllModals"
    /\ ui.pre.modals.cardModal
    /\ ui.pre.selectedCardId # Null
    /\ ui.form.cardId # ""
    /\ ui.form.title # Str(<<>>)
    /\ dom.form.cardId = ""
    /\ state.selectedCardId = Null

---------------------------------------------------------------------------
(* C19: filterCardsBySearch(query) with a string returns exactly the cards *)
(* of the state whose tab is the active tab and whose title or category    *)
(* contains the query, letter case and accents left aside; with an empty   *)
(* or blank query it returns getCardsForActiveTab(); it never returns a    *)
(* card of another tab, and neither call changes the state or the stored   *)
(* value.                                                                  *)

\* The letter without its accent.
Unaccented(c) ==
    CASE c = "a'" -> "a"
      [] c = "A'" -> "A"
      [] OTHER -> c

Folded(cs) == [i \in 1..Len(cs) |-> Unaccented(toLowerCase(cs[i]))]

Matches(card, query) ==
    /\ card.tab = state.activeTab
    /\ \/ contains(Folded(card.title.chars), Folded(Trim(query.chars)))
       \/ contains(Folded(categoryChars(card.category)), Folded(Trim(query.chars)))

C19_FilterCardsBySearch ==
    /\ (ui.op = "filterCardsBySearch" /\ ui.query.type = "string") =>
          /\ IF Trim(ui.query.chars) = <<>>
             THEN ui.found = getCardsForActiveTab(Page)
             ELSE ui.found = SelectSeq(state.cards, LAMBDA card : Matches(card, ui.query))
          /\ \A i \in 1..Len(ui.found) : ui.found[i].tab = state.activeTab
    /\ ui.op \in {"filterCardsBySearch", "getCardsForActiveTab"} =>
          (state = ui.pre /\ store = ui.stored)

---------------------------------------------------------------------------
(* C20: a submit of a valid form applies Storage's update and puts its     *)
(* result in the card's place in the state (edit), or applies Storage's    *)
(* create and appends the new card to the state (create); after a write    *)
(* that succeeded every modal is closed and a success notice is shown;     *)
(* after a write that failed (Storage returned null) an error notice is    *)
(* shown and the state's cards are as before.                              *)

Submitted == ui.op = "handleFormSubmit" /\ ui.name \in {"edit", "create"}

\* What Storage returned to the submit.
Written ==
    IF ui.name = "edit"
    THEN updateCard(ui.stored, ui.form.cardId, formCardData(ui.form), clock, ui.full)
    ELSE saveCard(ui.stored, formCardData(ui.form), generateId(nextId - 1), clock, ui.full)

Shown(type) == \E i \in 1..Len(ui.toasts) : ui.toasts[i] = type

Replaced(cards, card) ==
    [i \in 1..Len(cards) |-> IF cards[i].id = card.id THEN card ELSE cards[i]]

C20_FormSubmit ==
    Submitted =>
        IF Written.ret.ok
        THEN /\ store = Written.store
             /\ HasId(getAllCards(store), Written.ret.cards[1].id)
             /\ IF ui.name = "edit"
                THEN state.cards = Replaced(ui.pre.cards, Written.ret.cards[1])
                ELSE state.cards = Append(ui.pre.cards, Written.ret.cards[1])
             /\ \A modalName \in DOMAIN state.modals : ~state.modals[modalName]
             /\ Shown("success")
        ELSE /\ Shown("error")
             /\ state.cards = ui.pre.cards

---------------------------------------------------------------------------
(* C21: confirming the delete dialog that was opened for card c removes    *)
(* exactly c from the stored cards and from the state's cards and closes   *)
(* every modal, whatever happened between the opening and the confirming.  *)

Confirmed == ui.op = "confirmDelete" /\ ui.pre.modals.deleteModal

IdsWithout(cards, id) == Ids(SelectSeq(cards, LAMBDA card : card.id # id))

C21_ConfirmDelete ==
    Confirmed =>
        /\ Ids(getAllCards(store)) = IdsWithout(getAllCards(ui.stored), dom.deleteFor)
        /\ Ids(state.cards) = IdsWithout(ui.pre.cards, dom.deleteFor)
        /\ \A modalName \in DOMAIN state.modals : ~state.modals[modalName]

---------------------------------------------------------------------------
(* C22: when the link dialog was opened for a card with a link by a click  *)
(* on the card or on its link button and the user confirms, the browser    *)
(* goes to the card's stored link and the dialog is closed afterwards.     *)

\* The dialog confirmed was opened by a click: modals.js has no link noted.
ClickedLinkConfirmed ==
    /\ ui.op = "confirmLinkOpen"
    /\ ui.pre.modals.linkModal
    /\ getSelectedCard(ui.pre) # 0

C22_ConfirmLinkOpen ==
    ClickedLinkConfirmed =>
        /\ dom.location = ui.pre.cards[getSelectedCard(ui.pre)].link
        /\ ~state.modals.linkModal

---------------------------------------------------------------------------
(* C23: whenever the form is opened for a new card (a create button,       *)
(* createNewCard, the shortcut, openCardModal without a card and without a *)
(* tab) the form has no card id, no title, no category and no link, its    *)
(* tab is the active tab, its status pendente and its priority media; and  *)
(* a card created by a submit, the tab field never touched, is stored in   *)
(* the active tab.                                                         *)

OpenedForCreate ==
    \/ ui.op \in {"createButtonClick", "createNewCard", "newCardShortcut"}
    \/ ui.op = "openCardModal" /\ ui.name = ""

C23_OpenForCreate ==
    /\ OpenedForCreate =>
          /\ dom.form.cardId = ""
          /\ dom.form.title = Str(<<>>)
          /\ dom.form.category = ""
          /\ dom.form.link = ""
          /\ dom.form.tab = state.activeTab
          /\ dom.form.status = "pendente"
          /\ dom.form.priority = "media"
    /\ (ui.op = "handleFormSubmit" /\ ui.name = "create" /\ store # ui.stored) =>
          store.cards[Len(store.cards)].tab = ui.pre.activeTab

---------------------------------------------------------------------------
(* C24: the submit handler writes no record unless the form passes         *)
(* validation (a trimmed title of 1 to 100 characters, a link that is      *)
(* empty or an absolute URL of an accepted scheme, a date that is empty or *)
(* a date), and whenever the form on display fails validation the save     *)
(* button is disabled.                                                     *)

Passes(form) ==
    /\ Trim(form.title.chars) # <<>>
    /\ Len(Trim(form.title.chars)) <= 100
    /\ form.link = "" \/ isValidUrl(form.link)
    /\ form.date = "" \/ isValidDate(form.date)

C24_Validation ==
    /\ (ui.op = "handleFormSubmit" /\ store # ui.stored) => Passes(ui.form)
    /\ (FormShown /\ ~Passes(dom.form)) => dom.saveDisabled

---------------------------------------------------------------------------
(* C25: the statistics computed over the stored cards have total = the     *)
(* number of cards, pending, completed and overdue = the number of cards   *)
(* of that status, byTab[t] = the number of cards of tab t and today = the *)
(* number of cards dated the current calendar day; and creating a pending  *)
(* card in economia raises pending and byTab.economia by 1, and today by 1 *)
(* exactly when its date is today.                                         *)

C25_Stats ==
    LET cards == getAllCards(store)
        with(key, v) == Cardinality({i \in 1..Len(cards) : cards[i][key] = v})
        now == getStats(store, env.zone)
        before == getStats(last.pre, env.zone)
    IN  /\ ui.op = "refreshStats" =>
              /\ state.stats.total = Len(cards)
              /\ state.stats.pending = with("status", "pendente")
              /\ state.stats.completed = with("status", "concluido")
              /\ state.stats.overdue = with("status", "vencido")
              /\ \A t \in validTabs : state.stats.byTab[t] = with("tab", t)
              /\ state.stats.today = with("date", Today)
        /\ (last.op = "saveCard" /\ last.ret.ok /\ last.data \in PendingInputs) =>
              /\ now.pending = before.pending + 1
              /\ now.byTab.economia = before.byTab.economia + 1
              /\ now.today = before.today + (IF last.data.date = Today THEN 1 ELSE 0)

---------------------------------------------------------------------------
(* C26: after every completed operation of the page (a card created or     *)
(* edited with the form, a delete confirmed, a card dragged and dropped),  *)
(* the storage write having failed or not, the cards of the state are the  *)
(* ids of the stored cards in the sequence getAllCards returns them.       *)

Completed ==
    \/ ui.op = "handleFormSubmit" /\ ui.name \in {"create", "edit"}
    \/ ui.op = "confirmDelete"
    \/ ui.op = "handleDrop"

C26_StateMatchesStorage == Completed => Ids(state.cards) = Ids(getAllCards(store))

---------------------------------------------------------------------------
(* C27: in every reachable state at most one of the flags cardModal,       *)
(* linkModal and deleteModal of the state is true, whatever opened the     *)
(* modal: a click on a card, an action button, the context menu or the     *)
(* keyboard.                                                               *)

ModalsOpen == {name \in {"cardModal", "linkModal", "deleteModal"} : state.modals[name]}

C27_OneModal == Cardinality(ModalsOpen) <= 1

---------------------------------------------------------------------------
(* C28: an updateCard that succeeds removes no record: whatever the        *)
(* partial, an empty or blank title included, getAllCards returns the ids  *)
(* it returned before, and the updated record has a title that is not      *)
(* empty once trimmed.                                                     *)

C28_UpdateKeepsRecords ==
    (last.op = "updateCard" /\ last.ret.ok) =>
        /\ {After[i].id : i \in 1..Len(After)} = {Before[i].id : i \in 1..Len(Before)}
        /\ \A i \in 1..Len(After) :
               After[i].id = last.id =>
                   /\ After[i].title.type = "string"
                   /\ Trim(After[i].title.chars) # <<>>

---------------------------------------------------------------------------
(* C29: after any sequence of creations, deletions, reorderings and        *)
(* imports every stored record has an order that is a non-negative number, *)
(* and no two stored records have the same order.                          *)

C29_DistinctOrders ==
    /\ \A i \in 1..Len(After) : After[i].order # NoOrder /\ After[i].order >= 0
    /\ \A i, j \in 1..Len(After) : After[i].order = After[j].order => i = j

---------------------------------------------------------------------------
(* C30: however the calls of showToast and the entry, dismissal and        *)
(* removal timers of the toasts interleave, at most one toast is in the    *)
(* document at any time; a toast leaves the document only when a later     *)
(* showToast replaces it or its own removal timer fires, so that the timer *)
(* of a replaced toast never removes a newer one; and every toast shown is *)
(* removed in the end, its timers firing.                                  *)

Attached(i) == i <= Len(dom.body) /\ dom.body[i].attached

OneToast == Cardinality({i \in Toasts : Attached(i)}) <= 1

\* Toast i leaves the document in this step by a showToast or by its own
\* removal timer.
LeavesProperly(i) ==
    \/ Len(dom'.body) = Len(dom.body) + 1
    \/ Pending(i, "removal") /\ "removal" \notin dom'.body[i].timers

C30_Toasts ==
    /\ []OneToast
    /\ [][\A i \in Toasts : (Attached(i) /\ ~Attached(i)') => LeavesProperly(i)]_vars
    /\ \A i \in Toasts : Attached(i) ~> ~Attached(i)

\* A toast was replaced and its timers have all fired while a newer toast
\* is in the document.
C30_Witness ==
    \E i, j \in Toasts :
        /\ i < j
        /\ j <= Len(dom.body)
        /\ dom.body[i].timers = {}
        /\ Attached(j)

====
